---- MODULE Spec2Model ----
(***************************************************************************)
(* Position management and decision engine of the trading bot              *)
(* (autoTrade/enhancedTradeBot.js with utils/technicalAnalysis.js).        *)
(*                                                                         *)
(* Numbers.  Prices, balances and ATR are whole USDT.  A position size is  *)
(* a JavaScript double; it is kept here in units of 1e-7 SOL, one digit    *)
(* finer than the six decimals toFixed(6) leaves on an order, so that the  *)
(* rounding of an order size is a real conversion.  A confidence is        *)
(* 100 * votes / total with total in 1..3; it is kept multiplied by 3,     *)
(* which makes every such value a whole number (66.66...% is 200).         *)
(***************************************************************************)
EXTENDS Integers, Sequences, FiniteSets

VARIABLES
    now,                    \* Date.now(), in milliseconds
    positions,              \* positionManager.positions
    tradingState,           \* tradingState: lastAction, lastTradePrice, consecutiveTrades
    getRecentCandlesBound,  \* whether the free identifier getRecentCandles resolves
    entriesSinceNeutral,    \* history: filled entry orders since the last neutral signal
    op,                     \* history: the last operation, its inputs and what it emitted
    inFlight,               \* the cycles started and not yet finished, each where it is suspended
    bt,                     \* a run of runBacktest: its locals and how it ended
    calc,                   \* the last call of an indicator function: arguments and result
    retry,                  \* a call of retryRequest: its loop variable and what it did so far
    autoTrading,            \* the stored auto_trading document, the connection, and the module state of tradeBot.js
    websocketManager        \* the WebSocketManager: clients, priceInterval, balanceInterval, and the sockets and timers alive

vars == <<now, positions, tradingState, getRecentCandlesBound, entriesSinceNeutral, op,
          inFlight, bt, calc, retry, autoTrading, websocketManager>>

----------------------------------------------------------------------------
(* Bounds of the model *)

MaxLedger == 2      \* positions a ledger driven by direct calls may hold
MaxNow == 1         \* last clock value the Tick action reaches

(* Inputs *)

Prices == {100, 112}
ATRs == {4}
Balances == {100}
CloseReasons == {"Stop Loss"}
LedgerDirections == {"buy", "sell"}
LedgerSizes == {2000000}    \* 0.2 SOL, in units of 1e-7 SOL

----------------------------------------------------------------------------
(* TRADING_CONFIG *)

MAX_CONSECUTIVE_TRADES == 3
MIN_SIGNAL_CONFIDENCE == 60
MAX_POSITIONS == 3

----------------------------------------------------------------------------
(* Helpers of the model *)

Max(a, b) == IF a >= b THEN a ELSE b

Last(s) == s[Len(s)]

RECURSIVE SelectIndices(_, _, _)
\* the indices i > k of s, in order, whose element is open
SelectIndices(s, k, acc) ==
    IF k >= Len(s) THEN acc
    ELSE SelectIndices(s, k + 1,
                       IF s[k + 1].status = "open" THEN Append(acc, k + 1) ELSE acc)

----------------------------------------------------------------------------
(* PositionManager *)

\* a position as addPosition builds it; exit holds exitPrice, exitTime, pnl and
\* reason once the position is closed, and is empty (the properties are absent)
\* before
NewPosition(t, entryPrice, size, direction, stopLoss, takeProfit) ==
    [id |-> t, entryPrice |-> entryPrice, size |-> size, direction |-> direction,
     stopLoss |-> stopLoss, takeProfit |-> takeProfit, entryTime |-> t,
     status |-> "open", exit |-> <<>>]

\* a variant that pushes the new position onto the ledger twice
addPositionTwice(ps, t, entryPrice, size, direction, stopLoss, takeProfit) ==
    ps \o << NewPosition(t, entryPrice, size, direction, stopLoss, takeProfit),
             NewPosition(t, entryPrice, size, direction, stopLoss, takeProfit) >>

addPosition(ps, t, entryPrice, size, direction, stopLoss, takeProfit) ==
    Append(ps, NewPosition(t, entryPrice, size, direction, stopLoss, takeProfit))

\* this.positions.find(p => p.id === positionId && p.status === 'open'):
\* the index of the first match, 0 when there is none
FindOpenLoose(ps, positionId) ==
    LET hits == {i \in 1..Len(ps) : ps[i].id = positionId}
    IN  IF hits = {} THEN 0 ELSE CHOOSE i \in hits : \A j \in hits : i <= j

FindOpen(ps, positionId) ==
    LET hits == {i \in 1..Len(ps) : ps[i].id = positionId /\ ps[i].status = "open"}
    IN  IF hits = {} THEN 0 ELSE CHOOSE i \in hits : \A j \in hits : i <= j

Pnl(p, exitPrice) ==
    IF p.direction = "buy"
    THEN (exitPrice - p.entryPrice) * p.size
    ELSE (p.entryPrice - exitPrice) * p.size

\* a variant that writes the exit price over the stop-loss level as well
ClosedPositionMovesStop(p, t, exitPrice, reason) ==
    [p EXCEPT !.status = "closed", !.stopLoss = exitPrice,
              !.exit = <<[exitPrice |-> exitPrice, exitTime |-> t,
                          pnl |-> Pnl(p, exitPrice), reason |-> reason]>>]

ClosedPosition(p, t, exitPrice, reason) ==
    [p EXCEPT !.status = "closed",
              !.exit = <<[exitPrice |-> exitPrice, exitTime |-> t,
                          pnl |-> Pnl(p, exitPrice), reason |-> reason]>>]

\* the ledger after closePosition(positionId, exitPrice, reason)
closePosition(ps, t, positionId, exitPrice, reason) ==
    LET i == FindOpen(ps, positionId)
    IN  IF i = 0 THEN ps
        ELSE [ps EXCEPT ![i] = ClosedPosition(ps[i], t, exitPrice, reason)]

\* what closePosition returns: the index of the position it closed, 0 for null
closePositionResult(ps, positionId) == FindOpen(ps, positionId)

getOpenIndices(ps) == SelectIndices(ps, 0, <<>>)

getOpenPositions(ps) ==
    LET idx == getOpenIndices(ps) IN [k \in 1..Len(idx) |-> ps[idx[k]]]

OpenCount(ps) == Len(getOpenIndices(ps))

----------------------------------------------------------------------------
(* calculateDynamicLevels *)

\* a variant with the take profit as far away as the stop loss
calculateDynamicLevelsEven(entryPrice, atr, direction) ==
    IF direction = "buy"
    THEN [stopLoss |-> entryPrice - atr * 2, takeProfit |-> entryPrice + atr * 2]
    ELSE [stopLoss |-> entryPrice + atr * 2, takeProfit |-> entryPrice - atr * 2]

calculateDynamicLevels(entryPrice, atr, direction) ==
    IF direction = "buy"
    THEN [stopLoss |-> entryPrice - atr * 2, takeProfit |-> entryPrice + atr * (2 + 1)]
    ELSE [stopLoss |-> entryPrice + atr * 2, takeProfit |-> entryPrice - atr * (2 + 1)]

----------------------------------------------------------------------------
(* generateTradingSignal, from the latest indicator values (lines 154-220) *)

\* a variant: the share of the bullish votes
VoteConfidenceBullishShare(bullishSignals, bearishSignals) ==
    LET totalSignals == bullishSignals + bearishSignals
    IN  IF totalSignals > 0 THEN (300 * bullishSignals) \div totalSignals ELSE 0

\* confidence (x 3): 100 * max(bullish, bearish) / total, 0 when no vote was cast
VoteConfidence(bullishSignals, bearishSignals) ==
    LET totalSignals == bullishSignals + bearishSignals
    IN  IF totalSignals > 0
        THEN (300 * Max(bullishSignals, bearishSignals)) \div totalSignals
        ELSE 0

generateTradingSignal(currentRSI, currentEMA5, currentEMA20, currentATR, currentPrice) ==
    LET bullishSignals ==
            (IF currentRSI < 30 THEN 1 ELSE 0)
          + (IF currentEMA5 > currentEMA20 THEN 1 ELSE 0)
          + (IF currentPrice > currentEMA20 THEN 1 ELSE 0)
        bearishSignals ==
            (IF currentRSI >= 30 /\ currentRSI > 70 THEN 1 ELSE 0)
          + (IF currentEMA5 < currentEMA20 THEN 1 ELSE 0)
          + (IF currentPrice < currentEMA20 THEN 1 ELSE 0)
        totalSignals == bullishSignals + bearishSignals
        \* confidence >= 0.6 on the quotient max / total
        agree == totalSignals > 0
                 /\ 10 * Max(bullishSignals, bearishSignals) >= 6 * totalSignals
    IN  [signal |-> IF agree /\ bullishSignals > bearishSignals THEN "bullish"
                    ELSE IF agree /\ bearishSignals > bullishSignals THEN "bearish"
                    ELSE "neutral",
         confidence |-> VoteConfidence(bullishSignals, bearishSignals),
         atr |-> currentATR]

----------------------------------------------------------------------------
(* Risk and sizing *)

\* MIN_ORDER_VALUE_USDT (0.14) in units of 1e-7 USDT
MinOrderValue == 14 * 100000

\* availableBalance * INITIAL_POSITION_SIZE (0.3) * signalConfidence / 100
\* / currentPrice, floored at MIN_ORDER_VALUE_USDT / currentPrice; 1e-7 SOL
calculatePositionSize(availableBalance, signalConfidence, currentPrice) ==
    LET baseSize == (availableBalance * signalConfidence * 10000) \div currentPrice
        minSize == MinOrderValue \div currentPrice
    IN  Max(baseSize, minSize)

\* Number.prototype.toFixed(6): the size in units of 1e-6 SOL, rounded to nearest
toFixed6(size) == (size + 5) \div 10

shouldScaleIn(signal, currentPrice, openPositions) ==
    IF Len(openPositions) = 0 THEN FALSE
    ELSE IF Len(openPositions) >= MAX_POSITIONS THEN FALSE
    ELSE LET lastPosition == Last(openPositions)
         IN  IF signal.signal # lastPosition.direction THEN FALSE
             ELSE IF lastPosition.direction = "buy"
                  THEN 100 * currentPrice < 98 * lastPosition.entryPrice
                  ELSE 100 * currentPrice > 102 * lastPosition.entryPrice

----------------------------------------------------------------------------
(* Orders.  placeOrder answers code '0' ("ok"), another code ("rejected") or   *)
(* null (no credentials), or throws once the transport's retries are used up.  *)

OrderResults == {"ok", "rejected", "null", "throw"}

Order(kind, side, size, res) == [kind |-> kind, side |-> side, size |-> size, res |-> res]

\* a variant that takes any answer object for a fill: orderRes is truthy
FilledIfAnswered(res) == res \in {"ok", "rejected"}

\* orderRes?.code === '0'

Filled(res) == res = "ok"

----------------------------------------------------------------------------
(* executeTrade, executeNewPosition, executeScaleIn.  Each gives the state the *)
(* call leaves: the ledger, tradingState, the orders placed, the events sent,  *)
(* whether it threw and whether it reported success.                           *)

TradeOutcome(ps, ts, orders, events, threw, success) ==
    [positions |-> ps, tradingState |-> ts, orders |-> orders, events |-> events,
     threw |-> threw, success |-> success]

\* a variant that counts a filled order twice
executeNewPositionCountsTwice(ps, ts, t, signal, currentPrice, availableBalance, res) ==
    LET positionSize == calculatePositionSize(availableBalance, signal.confidence, currentPrice)
        orderValue == positionSize * currentPrice
        levels == calculateDynamicLevels(currentPrice, signal.atr, signal.signal)
        order == Order("new", signal.signal, toFixed6(positionSize), res)
    IN  IF orderValue < MinOrderValue
        THEN TradeOutcome(ps, ts, <<>>, <<>>, FALSE, FALSE)
        ELSE IF res = "throw"
        THEN TradeOutcome(ps, ts, <<order>>, <<>>, TRUE, FALSE)
        ELSE IF Filled(res)
        THEN TradeOutcome(
                 addPosition(ps, t, currentPrice, positionSize, signal.signal,
                             levels.stopLoss, levels.takeProfit),
                 [lastAction |-> signal.signal, lastTradePrice |-> <<currentPrice>>,
                  consecutiveTrades |-> ts.consecutiveTrades + 2],
                 <<order>>, <<"opened">>, FALSE, TRUE)
        ELSE TradeOutcome(ps, ts, <<order>>, <<"orderFailed">>, FALSE, FALSE)

executeNewPosition(ps, ts, t, signal, currentPrice, availableBalance, res) ==
    LET positionSize == calculatePositionSize(availableBalance, signal.confidence, currentPrice)
        orderValue == positionSize * currentPrice
        levels == calculateDynamicLevels(currentPrice, signal.atr, signal.signal)
        order == Order("new", signal.signal, toFixed6(positionSize), res)
    IN  IF orderValue < MinOrderValue
        THEN TradeOutcome(ps, ts, <<>>, <<>>, FALSE, FALSE)
        ELSE IF res = "throw"
        THEN TradeOutcome(ps, ts, <<order>>, <<>>, TRUE, FALSE)
        ELSE IF Filled(res)
        THEN TradeOutcome(
                 addPosition(ps, t, currentPrice, positionSize, signal.signal,
                             levels.stopLoss, levels.takeProfit),
                 [lastAction |-> signal.signal, lastTradePrice |-> <<currentPrice>>,
                  consecutiveTrades |-> ts.consecutiveTrades + 1],
                 <<order>>, <<"opened">>, FALSE, TRUE)
        ELSE TradeOutcome(ps, ts, <<order>>, <<"orderFailed">>, FALSE, FALSE)

executeScaleIn(ps, ts, signal, currentPrice, availableBalance, res) ==
    LET scaleInSize == calculatePositionSize(availableBalance, signal.confidence, currentPrice) \div 2
        orderValue == scaleInSize * currentPrice
        order == Order("scaleIn", signal.signal, toFixed6(scaleInSize), res)
    IN  IF orderValue < MinOrderValue
        THEN TradeOutcome(ps, ts, <<>>, <<>>, FALSE, FALSE)
        ELSE IF res = "throw"
        THEN TradeOutcome(ps, ts, <<order>>, <<>>, TRUE, FALSE)
        ELSE IF Filled(res)
        THEN TradeOutcome(ps, ts, <<order>>, <<"scaleIn">>, FALSE, TRUE)
        ELSE TradeOutcome(ps, ts, <<order>>, <<"scaleInFailed">>, FALSE, FALSE)

\* openPositions.length < TRADING_CONFIG.MAX_POSITIONS
BelowMaxPositions(openCount) == openCount < MAX_POSITIONS

executeTrade(ps, ts, t, signal, currentPrice, availableBalance, res) ==
    LET openPositions == getOpenPositions(ps)
    IN  IF shouldScaleIn(signal, currentPrice, openPositions)
        THEN executeScaleIn(ps, ts, signal, currentPrice, availableBalance, res)
        ELSE IF BelowMaxPositions(Len(openPositions))
        THEN executeNewPosition(ps, ts, t, signal, currentPrice, availableBalance, res)
        ELSE TradeOutcome(ps, ts, <<>>, <<>>, FALSE, FALSE)

----------------------------------------------------------------------------
(* managePositions *)

\* closeReason after both checks ("" while shouldClose is false): the stop-loss
\* check first, the take-profit check after it
ExitReason(p, currentPrice) ==
    LET stop == \/ p.direction = "buy" /\ currentPrice <= p.stopLoss
                \/ p.direction = "sell" /\ currentPrice >= p.stopLoss
        take == \/ p.direction = "buy" /\ currentPrice >= p.takeProfit
                \/ p.direction = "sell" /\ currentPrice <= p.takeProfit
    IN  IF take THEN "Take Profit" ELSE IF stop THEN "Stop Loss" ELSE ""

ClosingSide(p) == IF p.direction = "buy" THEN "sell" ELSE "buy"

\* the open positions whose exit condition holds at currentPrice
Triggered(ps, currentPrice) ==
    {i \in 1..Len(ps) : ps[i].status = "open" /\ ExitReason(ps[i], currentPrice) # ""}

\* one turn of the loop, for the position at index i of the ledger
ManageOne(acc, i, t, currentPrice, res) ==
    LET p == acc.positions[i]
        closeReason == ExitReason(p, currentPrice)
        order == Order("close", ClosingSide(p), toFixed6(p.size), res[i])
        closed == closePositionResult(acc.positions, p.id)
    IN  IF closeReason = "" THEN acc
        ELSE IF res[i] = "throw"
        THEN [acc EXCEPT !.orders = Append(@, order), !.threw = TRUE]
        ELSE IF ~Filled(res[i])
        THEN [acc EXCEPT !.orders = Append(@, order)]
        ELSE [acc EXCEPT
                 !.orders = Append(@, order),
                 !.positions = closePosition(@, t, p.id, currentPrice, closeReason),
                 !.events = IF closed = 0 THEN @ ELSE Append(@, "closed")]

RECURSIVE ManageFrom(_, _, _, _, _, _)
ManageFrom(acc, snapshot, k, t, currentPrice, res) ==
    IF k > Len(snapshot) \/ acc.threw THEN acc
    ELSE ManageFrom(ManageOne(acc, snapshot[k], t, currentPrice, res),
                    snapshot, k + 1, t, currentPrice, res)

\* res gives the exchange's answer to the closing order of each triggered position
managePositions(ps, t, currentPrice, res) ==
    ManageFrom([positions |-> ps, orders |-> <<>>, events |-> <<>>, threw |-> FALSE],
               getOpenIndices(ps), 1, t, currentPrice, res)

----------------------------------------------------------------------------
(* History record of an operation *)

NoOp ==
    [name |-> "init", switch |-> "none", path |-> "none", signal |-> "none",
     confidence |-> 0, price |-> 0, balance |-> 0, fetched |-> <<>>,
     orders |-> <<>>, events |-> <<>>, id |-> 0, exitPrice |-> 0, ret |-> 0,
     thrownAt |-> "none", escaped |-> FALSE]

\* initial values of the state the other specifications work on
NoneInFlight == [c \in {1, 2} |-> [pc |-> "idle"]]

NoBacktest == [status |-> "none"]

NoCall == [fn |-> "none"]

----------------------------------------------------------------------------
(* The ledger driven directly: addPosition, closePosition, the clock *)

Tick ==
    /\ now < MaxNow
    /\ now' = now + 1
    /\ op' = [NoOp EXCEPT !.name = "tick"]
    /\ UNCHANGED <<positions, tradingState, getRecentCandlesBound, entriesSinceNeutral>>
    /\ UNCHANGED <<inFlight, bt, calc, retry, autoTrading, websocketManager>>

AddPosition ==
    /\ Len(positions) < MaxLedger
    /\ \E entryPrice \in Prices, size \in LedgerSizes, direction \in LedgerDirections,
          atr \in ATRs :
         LET levels == calculateDynamicLevels(entryPrice, atr, direction)
         IN  /\ positions' = addPosition(positions, now, entryPrice, size, direction,
                                         levels.stopLoss, levels.takeProfit)
             /\ op' = [NoOp EXCEPT !.name = "addPosition", !.id = now,
                                   !.ret = Len(positions) + 1]
    /\ UNCHANGED <<now, tradingState, getRecentCandlesBound, entriesSinceNeutral>>
    /\ UNCHANGED <<inFlight, bt, calc, retry, autoTrading, websocketManager>>

ClosePosition ==
    /\ \E positionId \in 0..MaxNow, exitPrice \in Prices, reason \in CloseReasons :
         /\ positions' = closePosition(positions, now, positionId, exitPrice, reason)
         /\ op' = [NoOp EXCEPT !.name = "closePosition", !.id = positionId,
                               !.exitPrice = exitPrice,
                               !.ret = closePositionResult(positions, positionId)]
    /\ UNCHANGED <<now, tradingState, getRecentCandlesBound, entriesSinceNeutral>>
    /\ UNCHANGED <<inFlight, bt, calc, retry, autoTrading, websocketManager>>

----------------------------------------------------------------------------
(* The enable switch: getSwitchByName and getAutoTradingStatusFromDB *)

\* the auto_trading document as the database holds it at the moment of the read
SwitchDocs ==
    [exists : BOOLEAN, isEnabled : BOOLEAN, preventAutoDisable : BOOLEAN,
     scheduleEnabled : BOOLEAN]

\* Switch.findOne behind the connection check: the document, or null (exists
\* FALSE) when the database is down, the query throws or nothing is stored
getSwitchByName(dbConnected, findThrows, doc) ==
    IF ~dbConnected \/ findThrows THEN [doc EXCEPT !.exists = FALSE] ELSE doc

\* isActive(): "true", "false", or "throws" (toLocaleDateString rejects the
\* weekday option 'lowercase' with a RangeError once the schedule is consulted)
isActive(doc) ==
    IF ~doc.isEnabled THEN "false"
    ELSE IF doc.preventAutoDisable THEN "true"
    ELSE IF doc.scheduleEnabled THEN "throws"
    ELSE "true"

GateIgnoresEnabled(dbConnected, findThrows, doc) ==
    getSwitchByName(dbConnected, findThrows, doc).exists

getAutoTradingStatusFromDB(dbConnected, findThrows, doc) ==
    LET autoTradingSwitch == getSwitchByName(dbConnected, findThrows, doc)
    IN  IF autoTradingSwitch.exists
        THEN autoTradingSwitch.isEnabled /\ isActive(autoTradingSwitch) = "true"
        ELSE FALSE

\* What the switch collaborator has to say at the moment of a read, whatever the
\* gate makes of it: "unreadable" (database down, query fails, nothing stored,
\* or the schedule cannot be evaluated), "disabled" or "enabled"
SwitchReport(dbConnected, findThrows, doc) ==
    IF ~dbConnected \/ findThrows \/ ~doc.exists THEN "unreadable"
    ELSE IF ~doc.isEnabled THEN "disabled"
    ELSE IF ~doc.preventAutoDisable /\ doc.scheduleEnabled THEN "unreadable"
    ELSE "enabled"

SwitchReads == BOOLEAN \X BOOLEAN \X SwitchDocs

\* the reports on which line 303 lets the cycle go on, and those on which it
\* returns
OpenGateReports ==
    {SwitchReport(x[1], x[2], x[3]) :
        x \in {y \in SwitchReads : getAutoTradingStatusFromDB(y[1], y[2], y[3])}}

ClosedGateReports ==
    {SwitchReport(x[1], x[2], x[3]) :
        x \in {y \in SwitchReads : ~getAutoTradingStatusFromDB(y[1], y[2], y[3])}}

----------------------------------------------------------------------------
(* runEnhancedAutoTrade, one action per way through it *)

Cycle(report, path) == [NoOp EXCEPT !.name = "cycle", !.switch = report, !.path = path]

\* a variant in which only the try block of lines 308-386 catches
GuardedByCycleTryOnly(step) == step \in {"price", "balance", "candles", "order"}

\* whether an error thrown at step is caught before it leaves the cycle: the
\* switch lookup by the try blocks of getSwitchByName and of lines 68-74 (the
\* call of line 302 stands outside the cycle's own try), the rest by lines 308-386
Guarded(step) ==
    \/ step = "switch"
    \/ step \in {"price", "balance", "candles", "order"}

\* the record of a cycle in which step threw
Thrown(o, step) == [o EXCEPT !.thrownAt = step, !.escaped = ~Guarded(step)]

\* lines 302-306: the switch is off or cannot be read
CycleDisabled ==
    /\ \E report \in ClosedGateReports :
         op' = IF report = "unreadable"
               THEN Thrown(Cycle(report, "disabled"), "switch")
               ELSE Cycle(report, "disabled")
    /\ tradingState' = [tradingState EXCEPT !.lastAction = "null"]
    /\ UNCHANGED <<now, positions, getRecentCandlesBound, entriesSinceNeutral>>
    /\ UNCHANGED <<inFlight, bt, calc, retry, autoTrading, websocketManager>>

\* lines 312-318: analyzeTradingTime says weekend or low liquidity
CyclePaused ==
    /\ \E report \in OpenGateReports :
         op' = [Cycle(report, "paused") EXCEPT !.events = <<"start", "paused">>]
    /\ UNCHANGED <<now, positions, tradingState, getRecentCandlesBound, entriesSinceNeutral>>
    /\ UNCHANGED <<inFlight, bt, calc, retry, autoTrading, websocketManager>>

\* lines 321-325 and 383-386: getMarketPrice gives a falsy price, or throws
CyclePriceFails ==
    /\ \E report \in OpenGateReports, threw \in BOOLEAN :
         LET o == [Cycle(report, IF threw THEN "error" ELSE "noPrice") EXCEPT
                      !.fetched = <<"price">>,
                      !.events = <<"start", IF threw THEN "error" ELSE "priceError">>]
         IN  op' = IF threw THEN Thrown(o, "price") ELSE o
    /\ UNCHANGED <<now, positions, tradingState, getRecentCandlesBound, entriesSinceNeutral>>
    /\ UNCHANGED <<inFlight, bt, calc, retry, autoTrading, websocketManager>>

\* lines 328-333 and 383-386: getBalance throws
CycleBalanceFails ==
    /\ \E report \in OpenGateReports, currentPrice \in Prices :
         op' = Thrown([Cycle(report, "error") EXCEPT
                          !.price = currentPrice, !.fetched = <<"price", "balance">>,
                          !.events = <<"start", "error">>], "balance")
    /\ UNCHANGED <<now, positions, tradingState, getRecentCandlesBound, entriesSinceNeutral>>
    /\ UNCHANGED <<inFlight, bt, calc, retry, autoTrading, websocketManager>>

\* a variant of the step below that manages the open positions before it looks
\* at the candles
CycleCandlesFailManaged ==
    /\ \E report \in OpenGateReports, currentPrice \in Prices,
          availableUSDT \in Balances, short \in BOOLEAN :
         \E closeRes \in [Triggered(positions, currentPrice) -> OrderResults] :
           LET managed == managePositions(positions, now, currentPrice, closeRes)
           IN  /\ short => getRecentCandlesBound
               /\ positions' = managed.positions
               /\ op' = [Cycle(report, IF short THEN "noCandles" ELSE "error") EXCEPT
                            !.price = currentPrice, !.balance = availableUSDT,
                            !.orders = managed.orders,
                            !.thrownAt = IF short THEN "none" ELSE "candles"]
    /\ UNCHANGED <<now, tradingState, getRecentCandlesBound, entriesSinceNeutral>>
    /\ UNCHANGED <<inFlight, bt, calc, retry, autoTrading, websocketManager>>

\* line 339: getRecentCandles is not among the imports of lines 1-8, so the call
\* is a ReferenceError unless the global scope binds the name; bound, the fetch
\* throws ("error"), or gives null or fewer than 50 candles ("noCandles")
CycleCandlesFail ==
    /\ \E report \in OpenGateReports, currentPrice \in Prices,
          availableUSDT \in Balances, short \in BOOLEAN :
         /\ short => getRecentCandlesBound
         /\ LET o == [Cycle(report, IF short THEN "noCandles" ELSE "error") EXCEPT
                         !.price = currentPrice, !.balance = availableUSDT,
                         !.fetched = IF getRecentCandlesBound
                                     THEN <<"price", "balance", "candles">>
                                     ELSE <<"price", "balance">>,
                         !.events = <<"start", "balance",
                                      IF short THEN "candleError" ELSE "error">>]
            IN  op' = IF short THEN o ELSE Thrown(o, "candles")
    /\ UNCHANGED <<now, positions, tradingState, getRecentCandlesBound, entriesSinceNeutral>>
    /\ UNCHANGED <<inFlight, bt, calc, retry, autoTrading, websocketManager>>

\* signal.confidence < TRADING_CONFIG.MIN_SIGNAL_CONFIDENCE (confidence is x 3)
ConfidenceLow(signal) == signal.confidence < 3 * MIN_SIGNAL_CONFIDENCE

\* tradingState.consecutiveTrades >= TRADING_CONFIG.MAX_CONSECUTIVE_TRADES
Overtrading(ts) == ts.consecutiveTrades >= MAX_CONSECUTIVE_TRADES

CycleOutcome(ps, ts, orders, events, path) ==
    [positions |-> ps, tradingState |-> ts, orders |-> orders, events |-> events,
     path |-> path]

\* a variant without the checks of lines 358 and 370: every signal that the
\* overtrading guard lets through is handed to executeTrade
CycleBodyUngated(ps, ts, t, currentPrice, availableUSDT, signal, closeRes, entryRes) ==
    LET managed == managePositions(ps, t, currentPrice, closeRes)
        head == <<"start", "balance", "signal">> \o managed.events
        trade == executeTrade(managed.positions, ts, t, signal, currentPrice,
                              availableUSDT, entryRes)
    IN  IF managed.threw
        THEN CycleOutcome(managed.positions, ts, managed.orders,
                          Append(head, "error"), "error")
        ELSE IF Overtrading(ts)
        THEN CycleOutcome(managed.positions, ts, managed.orders,
                          Append(head, "overtrading"), "overtrading")
        ELSE CycleOutcome(trade.positions, trade.tradingState,
                          managed.orders \o trade.orders,
                          Append(head \o trade.events, "end"),
                          IF trade.threw THEN "error"
                          ELSE IF trade.success THEN "traded" ELSE "tradeFailed")

\* a variant that manages the positions after the new-trade logic and only
\* when that logic was not cut short
CycleBodyManageLast(ps, ts, t, currentPrice, availableUSDT, signal, closeRes, entryRes) ==
    LET head == <<"start", "balance", "signal">>
        trade == executeTrade(ps, ts, t, signal, currentPrice, availableUSDT, entryRes)
        managed == managePositions(trade.positions, t, currentPrice, closeRes)
    IN  IF ConfidenceLow(signal)
        THEN CycleOutcome(ps, ts, <<>>, Append(head, "lowConfidence"), "lowConfidence")
        ELSE IF Overtrading(ts)
        THEN CycleOutcome(ps, ts, <<>>, Append(head, "overtrading"), "overtrading")
        ELSE IF signal.signal = "neutral"
        THEN CycleOutcome(ps, [ts EXCEPT !.consecutiveTrades = 0], <<>>,
                          head \o <<"neutral", "end">>, "neutral")
        ELSE IF trade.threw
        THEN CycleOutcome(trade.positions, trade.tradingState, trade.orders,
                          Append(head \o trade.events, "error"), "error")
        ELSE CycleOutcome(managed.positions, trade.tradingState,
                          trade.orders \o managed.orders,
                          Append(head \o trade.events \o managed.events, "end"),
                          IF managed.threw THEN "error"
                          ELSE IF trade.success THEN "traded" ELSE "tradeFailed")

\* lines 345-386, from the signal on: what the cycle leaves behind.  closeRes
\* and entryRes are the exchange's answers to the orders the cycle places
CycleBody(ps, ts, t, currentPrice, availableUSDT, signal, closeRes, entryRes) ==
    LET managed == managePositions(ps, t, currentPrice, closeRes)
        head == <<"start", "balance", "signal">> \o managed.events
        trade == executeTrade(managed.positions, ts, t, signal, currentPrice,
                              availableUSDT, entryRes)
    IN  IF managed.threw
        THEN CycleOutcome(managed.positions, ts, managed.orders,
                          Append(head, "error"), "error")
        ELSE IF ConfidenceLow(signal)
        THEN CycleOutcome(managed.positions, ts, managed.orders,
                          Append(head, "lowConfidence"), "lowConfidence")
        ELSE IF Overtrading(ts)
        THEN CycleOutcome(managed.positions, ts, managed.orders,
                          Append(head, "overtrading"), "overtrading")
        ELSE IF signal.signal = "neutral"
        THEN CycleOutcome(managed.positions, [ts EXCEPT !.consecutiveTrades = 0],
                          managed.orders, head \o <<"neutral", "end">>, "neutral")
        ELSE IF trade.threw
        THEN CycleOutcome(trade.positions, trade.tradingState,
                          managed.orders \o trade.orders,
                          Append(head \o trade.events, "error"), "error")
        ELSE IF trade.success
        THEN CycleOutcome(trade.positions, trade.tradingState,
                          managed.orders \o trade.orders,
                          Append(head \o trade.events, "end"), "traded")
        ELSE CycleOutcome(trade.positions, trade.tradingState,
                          managed.orders \o trade.orders,
                          head \o trade.events \o <<"tradeFailed", "end">>, "tradeFailed")

\* the filled entry orders (new position or scale-in) among orders
FilledEntries(orders) ==
    Cardinality({k \in 1..Len(orders) : orders[k].kind # "close" /\ orders[k].res = "ok"})

\* Latest indicator values a cycle may see, <<RSI, EMA5, EMA20, ATR, close>>:
\* three bullish votes, three bearish votes, no vote at all, and one vote each
\* way.  (A 2:1 vote passes the same gates as a 3:0 vote and differs from it
\* only in the order size it leads to.)
Readings ==
    {<<20, 101, 100, atr, 101>> : atr \in ATRs}
    \cup {<<80, 99, 100, atr, 99>> : atr \in ATRs}
    \cup {<<50, 100, 100, atr, 100>> : atr \in ATRs}
    \cup {<<50, 101, 100, atr, 99>> : atr \in ATRs}

\* the signals generateTradingSignal gives on those values
Signals == {generateTradingSignal(r[1], r[2], r[3], r[4], r[5]) : r \in Readings}

\* lines 339-381: the candles arrive and the cycle goes on to the signal
CycleRunsOn(balances) ==
    /\ getRecentCandlesBound
    /\ \E report \in OpenGateReports, currentPrice \in Prices,
          availableUSDT \in balances, signal \in Signals, entryRes \in OrderResults :
         \E closeRes \in [Triggered(positions, currentPrice) -> OrderResults] :
           \E out \in {CycleBody(positions, tradingState, now, currentPrice,
                                 availableUSDT, signal, closeRes, entryRes)} :
               /\ positions' = out.positions
               /\ tradingState' = out.tradingState
               /\ now' = IF Len(out.positions) > Len(positions) THEN now + 1 ELSE now
               /\ entriesSinceNeutral' =
                    IF signal.signal = "neutral" THEN 0
                    ELSE IF entriesSinceNeutral + FilledEntries(out.orders)
                              > MAX_CONSECUTIVE_TRADES
                    THEN MAX_CONSECUTIVE_TRADES
                    ELSE entriesSinceNeutral + FilledEntries(out.orders)
               /\ LET o == [Cycle(report, out.path) EXCEPT
                               !.signal = signal.signal, !.confidence = signal.confidence,
                               !.price = currentPrice, !.balance = availableUSDT,
                               !.fetched = <<"price", "balance", "candles">>,
                               !.orders = out.orders, !.events = out.events]
                  IN  op' = IF out.path = "error" THEN Thrown(o, "order") ELSE o
    /\ UNCHANGED getRecentCandlesBound
    /\ UNCHANGED <<inFlight, bt, calc, retry, autoTrading, websocketManager>>

CycleRuns == CycleRunsOn(Balances)

RunEnhancedAutoTrade ==
    \/ CycleDisabled
    \/ CyclePaused
    \/ CyclePriceFails
    \/ CycleBalanceFails
    \/ CycleCandlesFail
    \/ CycleRuns

----------------------------------------------------------------------------

\* no call of retryRequest yet; accepted counts the orders the exchange has
\* accepted for the call when the request function is that of placeOrder
NoRetry ==
    [status |-> "none", maxRetries |-> 0, attempt |-> 0, calls |-> 0,
     outcomes |-> <<>>, throttled |-> <<>>, delays |-> <<>>, error |-> "none",
     accepted |-> 0]

\* the process has just been loaded: the variables of tradeBot.js are as
\* declared (lastTradePrice null is 0 here), the database is not connected yet, and nothing is stored in it
NoSwitch ==
    [dbConnected |-> FALSE, AUTO_TRADE_ENABLED |-> FALSE,
     lastAction |-> "null", lastTradePrice |-> 0, consecutiveTrades |-> 0,
     doc |-> [exists |-> FALSE, isEnabled |-> FALSE, preventAutoDisable |-> FALSE,
              scheduleEnabled |-> FALSE]]

\* the sockets a client can connect on
MaxSockets == 2

Sockets == 1..MaxSockets

\* the WebSocketManager as its constructor leaves it; socket says of every
\* socket whether it is open, has emitted 'error' and not yet 'close', or is
\* not there, and timers counts the intervals set and not cleared
NoClients ==
    [clients |-> {}, priceInterval |-> FALSE, balanceInterval |-> FALSE,
     socket |-> [c \in Sockets |-> "none"],
     timers |-> [price |-> 0, balance |-> 0]]

InitLedger ==
    /\ now = 0
    /\ positions = <<>>
    /\ tradingState = [lastAction |-> "null", lastTradePrice |-> <<>>, consecutiveTrades |-> 0]
    /\ getRecentCandlesBound = FALSE
    /\ entriesSinceNeutral = 0
    /\ op = NoOp
    /\ inFlight = NoneInFlight
    /\ bt = NoBacktest
    /\ calc = NoCall
    /\ retry = NoRetry
    /\ autoTrading = NoSwitch
    /\ websocketManager = NoClients

Init ==
    /\ now = 0
    /\ positions = <<>>
    /\ tradingState = [lastAction |-> "null", lastTradePrice |-> <<>>, consecutiveTrades |-> 0]
    /\ getRecentCandlesBound \in BOOLEAN
    /\ entriesSinceNeutral = 0
    /\ op = NoOp
    /\ inFlight = NoneInFlight
    /\ bt = NoBacktest
    /\ calc = NoCall
    /\ retry = NoRetry
    /\ autoTrading = NoSwitch
    /\ websocketManager = NoClients

NextLedger == Tick \/ AddPosition \/ ClosePosition

SpecLedger == InitLedger /\ [][NextLedger]_vars

Next == RunEnhancedAutoTrade

\* the cycle over a ledger that also receives positions from direct addPosition
\* calls, with the directions 'buy' and 'sell' of calculateDynamicLevels
NextEngine ==
    \/ AddPosition
    \/ RunEnhancedAutoTrade /\ Len(positions') <= MaxLedger

SpecEngine == Init /\ [][NextEngine]_vars

\* cycles that get as far as the signal, over a ledger that receives one
\* position from a direct addPosition call, at any time; the cycles add at most
\* MAX_CONSECUTIVE_TRADES positions to it
NoDirectPosition == \A i \in 1..Len(positions) : positions[i].direction \notin LedgerDirections

AddDirectPosition ==
    /\ NoDirectPosition
    /\ \E entryPrice \in Prices, size \in LedgerSizes, direction \in LedgerDirections,
          atr \in ATRs :
         LET levels == calculateDynamicLevels(entryPrice, atr, direction)
         IN  /\ positions' = addPosition(positions, now, entryPrice, size, direction,
                                         levels.stopLoss, levels.takeProfit)
             /\ op' = [NoOp EXCEPT !.name = "addPosition", !.id = now,
                                   !.ret = Len(positions) + 1]
    /\ UNCHANGED <<now, tradingState, getRecentCandlesBound, entriesSinceNeutral>>
    /\ UNCHANGED <<inFlight, bt, calc, retry, autoTrading, websocketManager>>

NextExits == AddDirectPosition \/ CycleRuns

SpecExits == Init /\ [][NextExits]_vars

Spec == Init /\ [][Next]_vars

----------------------------------------------------------------------------
(* Vocabulary of the properties *)

IsCycle(o) == o.name = "cycle"

Directional(o) == o.signal \in {"bullish", "bearish"}

\* orders of a cycle that open or enlarge an exposure
EntryOrders(orders) == {k \in 1..Len(orders) : orders[k].kind # "close"}

NewPositionOrders(orders) == {k \in 1..Len(orders) : orders[k].kind = "new"}

FilledCloses(orders) ==
    {k \in 1..Len(orders) : orders[k].kind = "close" /\ orders[k].res = "ok"}

\* the attributes of a position fixed at its creation
Fixed(p) ==
    <<p.id, p.entryPrice, p.size, p.direction, p.stopLoss, p.takeProfit, p.entryTime>>

----------------------------------------------------------------------------
(* Properties of the cycle alone (Spec) *)

\* C1: after any sequence of cycles at most MAX_POSITIONS (3) positions are open,
\* and a cycle that starts with the open count at the maximum and closes nothing
\* places no new-position order.
C1_MaxPositions ==
    [][ /\ OpenCount(positions') <= MAX_POSITIONS
        /\ (IsCycle(op') /\ OpenCount(positions) >= MAX_POSITIONS
              /\ FilledCloses(op'.orders) = {})
           => NewPositionOrders(op'.orders) = {} ]_vars

\* C1 witness: a cycle saw a bullish or bearish signal of full confidence with
\* three positions open, and placed no order.
C1_Witness ==
    /\ IsCycle(op) /\ Directional(op) /\ op.confidence >= 3 * MIN_SIGNAL_CONFIDENCE
    /\ OpenCount(positions) = MAX_POSITIONS
    /\ op.orders = <<>>

\* C2: once three trades have been executed with no neutral signal in between,
\* a cycle with a bullish or bearish signal places no entry order and adds no
\* position.  (Refuted by the code: filled scale-in orders are trades that
\* consecutiveTrades does not count.)
C2_OvertradingGuard ==
    [][ (IsCycle(op') /\ Directional(op')
           /\ entriesSinceNeutral >= MAX_CONSECUTIVE_TRADES)
        => /\ EntryOrders(op'.orders) = {}
           /\ Len(positions') = Len(positions) ]_vars

\* C3: a cycle that gets past the gate and observes a neutral signal leaves
\* consecutiveTrades at 0, whatever the confidence.  (Refuted by the code: the
\* confidence check returns first.)
C3_NeutralResets ==
    [][ (IsCycle(op') /\ op'.switch = "enabled" /\ op'.signal = "neutral")
        => tradingState'.consecutiveTrades = 0 ]_vars

\* C4: with an empty ledger, trading enabled, a price, a bullish signal of
\* confidence >= 60, balance and a filled entry order, the cycle leaves exactly
\* one open position, whose direction is 'buy'.  (Refuted by the code: the
\* position carries the signal's name.)
C4_BullishEntry ==
    [][ (IsCycle(op') /\ op'.switch = "enabled" /\ positions = <<>>
           /\ op'.signal = "bullish" /\ op'.confidence >= 3 * MIN_SIGNAL_CONFIDENCE
           /\ \E k \in EntryOrders(op'.orders) : op'.orders[k].res = "ok")
        => /\ Len(positions') = 1
           /\ positions'[1].status = "open"
           /\ positions'[1].direction = "buy" ]_vars

\* C9: a cycle whose switch read gives disabled or unreadable sets lastAction to
\* null and does nothing else: no fetch, no order, no event, and the ledger,
\* lastTradePrice and consecutiveTrades stay as they were.
C9_GateClosed ==
    [][ (IsCycle(op') /\ op'.switch # "enabled")
        => /\ tradingState' = [tradingState EXCEPT !.lastAction = "null"]
           /\ positions' = positions
           /\ op'.fetched = <<>> /\ op'.orders = <<>> /\ op'.events = <<>> ]_vars

\* C9 witness: a cycle found the switch unreadable after trades had been made;
\* lastAction is null and the trade counter and the ledger are still there.
C9_Witness ==
    /\ IsCycle(op) /\ op.switch = "unreadable" /\ op.path = "disabled"
    /\ tradingState.lastAction = "null"
    /\ tradingState.consecutiveTrades > 0 /\ tradingState.lastTradePrice # <<>>
    /\ Len(positions) > 0

\* C10: when the order for a new position is answered with a code other than
\* '0' or with null, the cycle adds no position, leaves tradingState as it was
\* and sends no second entry order.
C10_RejectedOrder ==
    [][ (IsCycle(op')
           /\ \E k \in NewPositionOrders(op'.orders) :
                 op'.orders[k].res \in {"rejected", "null"})
        => /\ Len(positions') = Len(positions)
           /\ tradingState' = tradingState
           /\ Cardinality(EntryOrders(op'.orders)) = 1 ]_vars

\* C10 witness: the order for a further position was rejected with a position
\* already on the ledger and a trade already counted.
C10_Witness ==
    /\ IsCycle(op) /\ op.path = "tradeFailed"
    /\ \E k \in NewPositionOrders(op.orders) : op.orders[k].res = "rejected"
    /\ Len(positions) > 0 /\ tradingState.consecutiveTrades > 0

----------------------------------------------------------------------------
(* Properties of the ledger driven directly (SpecLedger) *)

\* C5: a position goes from open to closed at most once and never back, and the
\* exitPrice, exitTime, pnl and reason of a closed position never change.
C5_OneWayLifecycle ==
    [][ \A i \in 1..Len(positions) :
          /\ i <= Len(positions')
          /\ positions[i].status = "closed"
             => /\ positions'[i].status = "closed"
                /\ positions'[i].exit = positions[i].exit ]_vars

\* C5 witness: closePosition was called with the id of a position that is
\* already closed, at another exit price than the one it was closed at.
C5_Witness ==
    /\ op.name = "closePosition" /\ op.ret = 0
    /\ \E i \in 1..Len(positions) :
         /\ positions[i].id = op.id /\ positions[i].status = "closed"
         /\ positions[i].exit[1].exitPrice # op.exitPrice
    /\ \A i \in 1..Len(positions) : positions[i].id = op.id => positions[i].status = "closed"

\* C6: closePosition on the id addPosition returned closes exactly one position,
\* with the direction-aware pnl, and a second closePosition on that id returns
\* null and changes no position.  (Refuted by the code through C7: two
\* positions can carry the id.)
C6_RoundTrip ==
    [][ /\ (op'.name = "closePosition" /\ op'.ret # 0)
           => /\ positions'[op'.ret].status = "closed"
              /\ positions'[op'.ret].exit[1].exitPrice = op'.exitPrice
              /\ positions'[op'.ret].exit[1].pnl =
                   (IF positions[op'.ret].direction = "buy"
                    THEN op'.exitPrice - positions[op'.ret].entryPrice
                    ELSE positions[op'.ret].entryPrice - op'.exitPrice)
                   * positions[op'.ret].size
              /\ \A i \in 1..Len(positions) : i # op'.ret => positions'[i] = positions[i]
        /\ (op.name = "closePosition" /\ op.ret # 0
              /\ op'.name = "closePosition" /\ op'.id = op.id)
           => (op'.ret = 0 /\ positions' = positions) ]_vars

\* C7: no two positions of the ledger have the same id, even when Date.now()
\* has not advanced between two addPosition calls.  (Refuted by the code.)
C7_UniqueIds ==
    \A i, j \in 1..Len(positions) : i # j => positions[i].id # positions[j].id

----------------------------------------------------------------------------
(* Properties of the cycle over a ledger that direct calls also fill (SpecEngine) *)

\* C8: no ledger operation and no step of a cycle changes the stopLoss,
\* takeProfit, entryPrice, size or direction (or the id and entryTime) of a
\* position that exists, and none removes a position.
C8_LevelsFixed ==
    [][ \A i \in 1..Len(positions) :
          i <= Len(positions') /\ Fixed(positions'[i]) = Fixed(positions[i]) ]_vars

\* C8 witness: a cycle closed a position of the ledger on its exit condition and
\* opened a new one in the same run.
C8_Witness ==
    /\ IsCycle(op)
    /\ FilledCloses(op.orders) # {}
    /\ \E k \in NewPositionOrders(op.orders) : op.orders[k].res = "ok"
    /\ \E i \in 1..Len(positions) : positions[i].status = "closed"

----------------------------------------------------------------------------
(* Failures inside a cycle *)

C12_FetchFailure ==
    [][ (IsCycle(op') /\ \/ op'.path \in {"noPrice", "noCandles"}
                         \/ op'.thrownAt \in {"price", "candles"})
        => /\ op'.orders = <<>>
           /\ positions' = positions
           /\ tradingState' = tradingState ]_vars

\* C12 witness: the candle fetch failed at a price at which an open position of
\* the ledger has reached an exit level.
C12_Witness ==
    /\ IsCycle(op) /\ (op.path = "noCandles" \/ op.thrownAt = "candles")
    /\ Triggered(positions, op.price) # {}
    /\ tradingState.consecutiveTrades > 0

----------------------------------------------------------------------------
(* Overlapping calls of runEnhancedAutoTrade.  The interval timer starts a call *)
(* whether or not the one before has resolved, and a call gives up control at   *)
(* each await; here a call is split at its exchange awaits.  The ledger holds   *)
(* only positions that cycles made, which managePositions never closes.         *)

Cycles == {1, 2}

\* the calls that are in flight, other than c
OthersInFlight(c) == {d \in Cycles \ {c} : inFlight[d].pc # "idle"}

\* call c has resolved: the calls that started after it move up
Finish(c) ==
    [d \in Cycles |->
        IF d = c THEN [pc |-> "idle"]
        ELSE IF inFlight[d].pc # "idle" /\ inFlight[d].seq > inFlight[c].seq
        THEN [inFlight[d] EXCEPT !.seq = @ - 1]
        ELSE inFlight[d]]

\* lines 302-321: the timer fires, the call passes the gate and the time filter
\* and is suspended at getMarketPrice
OverlapStart(c) ==
    /\ inFlight[c].pc = "idle"
    /\ inFlight' = [inFlight EXCEPT
                       ![c] = [pc |-> "fetching",
                               seq |-> Cardinality(OthersInFlight(c)) + 1]]
    /\ op' = [NoOp EXCEPT !.name = "start", !.id = c]
    /\ UNCHANGED <<now, positions, tradingState, getRecentCandlesBound,
                   entriesSinceNeutral, bt, calc, retry, autoTrading, websocketManager>>

\* lines 321-343 and 383-386: a fetch fails or throws (getRecentCandles unbound
\* included); the call resolves without having looked at the shared state
OverlapAbort(c) ==
    /\ inFlight[c].pc = "fetching"
    /\ inFlight' = Finish(c)
    /\ op' = [NoOp EXCEPT !.name = "abort", !.id = c]
    /\ UNCHANGED <<now, positions, tradingState, getRecentCandlesBound,
                   entriesSinceNeutral, bt, calc, retry, autoTrading, websocketManager>>

\* lines 339-371, 163-196 and 227-236: the fetches have answered; the call reads
\* consecutiveTrades and the open positions, and either resolves or is
\* suspended at placeOrder with its signal, price and balance
OverlapDecide(c) ==
    /\ inFlight[c].pc = "fetching"
    /\ getRecentCandlesBound
    /\ \E currentPrice \in Prices, availableUSDT \in Balances, signal \in Signals :
         LET openPositions == getOpenPositions(positions)
             trades == /\ ~ConfidenceLow(signal)
                       /\ ~Overtrading(tradingState)
                       /\ signal.signal # "neutral"
                       /\ \/ shouldScaleIn(signal, currentPrice, openPositions)
                          \/ BelowMaxPositions(Len(openPositions))
             resets == /\ ~ConfidenceLow(signal)
                       /\ ~Overtrading(tradingState)
                       /\ signal.signal = "neutral"
         IN  /\ Triggered(positions, currentPrice) = {}
             /\ inFlight' =
                  IF trades
                  THEN [inFlight EXCEPT
                           ![c] = [pc |-> "ordering", seq |-> inFlight[c].seq,
                                   kind |-> IF shouldScaleIn(signal, currentPrice,
                                                             openPositions)
                                            THEN "scaleIn" ELSE "new",
                                   signal |-> signal, price |-> currentPrice,
                                   balance |-> availableUSDT]]
                  ELSE Finish(c)
             /\ tradingState' = IF resets
                                THEN [tradingState EXCEPT !.consecutiveTrades = 0]
                                ELSE tradingState
             /\ op' = [NoOp EXCEPT !.name = "decide", !.id = c,
                                   !.signal = signal.signal,
                                   !.confidence = signal.confidence,
                                   !.price = currentPrice, !.balance = availableUSDT]
    /\ UNCHANGED <<now, positions, getRecentCandlesBound, entriesSinceNeutral, bt, calc, retry, autoTrading, websocketManager>>

\* lines 196-225 and 236-250: placeOrder answers and the call goes on with the
\* locals it was suspended with, on the ledger and tradingState as they are now
OverlapComplete(c) ==
    /\ inFlight[c].pc = "ordering"
    /\ \E res \in OrderResults :
         LET f == inFlight[c]
             out == IF f.kind = "new"
                    THEN executeNewPosition(positions, tradingState, now, f.signal,
                                            f.price, f.balance, res)
                    ELSE executeScaleIn(positions, tradingState, f.signal, f.price,
                                        f.balance, res)
         IN  /\ positions' = out.positions
             /\ tradingState' = out.tradingState
             /\ now' = IF Len(out.positions) > Len(positions) THEN now + 1 ELSE now
             /\ op' = [NoOp EXCEPT !.name = "complete", !.id = c,
                                   !.signal = f.signal.signal,
                                   !.confidence = f.signal.confidence,
                                   !.price = f.price, !.balance = f.balance,
                                   !.orders = out.orders, !.events = out.events]
    /\ inFlight' = Finish(c)
    /\ UNCHANGED <<getRecentCandlesBound, entriesSinceNeutral, bt, calc, retry, autoTrading, websocketManager>>

NextOverlap ==
    \E c \in Cycles :
        OverlapStart(c) \/ OverlapAbort(c) \/ OverlapDecide(c) \/ OverlapComplete(c)

SpecOverlap == Init /\ [][NextOverlap]_vars

\* C13: a call that started while an earlier call was still suspended does not
\* read or write tradingState or the ledger before the earlier call has
\* resolved.  (Refuted by the code: nothing serialises the calls.)
C13_OneCycleAtATime ==
    [][ \A c \in Cycles :
          (op'.name \in {"decide", "complete"} /\ op'.id = c)
          => \A d \in OthersInFlight(c) : inFlight[d].seq > inFlight[c].seq ]_vars

----------------------------------------------------------------------------
(* The indicator functions of technicalAnalysis.js, in exact arithmetic.  A    *)
(* number is a fraction num/den with den > 0, or NaN (the quotient 0 / 0).     *)

MaxSeries == 4      \* longest series handed to an indicator

NaN == [nan |-> TRUE, num |-> 0, den |-> 1]

Rat(n, d) == [nan |-> FALSE, num |-> n, den |-> d]

\* s[a] + ... + s[b], the reduce((a, b) => a + b, 0) over a slice
RECURSIVE SumRange(_, _, _)
SumRange(s, a, b) == IF a > b THEN 0 ELSE s[a] + SumRange(s, a + 1, b)

\* lines 10-19; the k-th value is pushed at loop index i = period - 1 + (k - 1)
calculateSMA(prices, period) ==
    IF Len(prices) < period THEN <<>>
    ELSE [k \in 1..(Len(prices) - (period - 1)) |->
             LET i == period - 1 + (k - 1)
             IN  Rat(SumRange(prices, (i - period + 1) + 1, i + 1), period)]

\* lines 41-44: newEMA = prices[i] * multiplier + last * (1 - multiplier), with
\* multiplier = 2 / (period + 1); i is the 0-based loop index
RECURSIVE EMALoop(_, _, _, _)
EMALoop(prices, period, i, ema) ==
    IF i >= Len(prices) THEN ema
    ELSE LET last == ema[Len(ema)]
             newEMA == Rat(2 * prices[i + 1] * last.den + last.num * (period - 1),
                           last.den * (period + 1))
         IN  EMALoop(prices, period, i + 1, Append(ema, newEMA))

\* a variant that leaves out the first value (the SMA of the first period prices)
calculateEMAUnseeded(prices, period) ==
    IF Len(prices) < period THEN <<>>
    ELSE Tail(EMALoop(prices, period, period,
                      <<Rat(SumRange(prices, 1, period), period)>>))

\* lines 27-47
calculateEMA(prices, period) ==
    IF Len(prices) < period THEN <<>>
    ELSE EMALoop(prices, period, period,
                 <<Rat(SumRange(prices, 1, period), period)>>)

\* lines 62-66: gains[i - 1] and losses[i - 1] of the change prices[i] - prices[i - 1]
Gains(prices) ==
    [k \in 1..(Len(prices) - 1) |->
        IF prices[k + 1] - prices[k] > 0 THEN prices[k + 1] - prices[k] ELSE 0]

Losses(prices) ==
    [k \in 1..(Len(prices) - 1) |->
        IF prices[k + 1] - prices[k] < 0 THEN prices[k] - prices[k + 1] ELSE 0]

\* lines 75-76 and 84-85: 100 - 100 / (1 + avgGain / avgLoss).  In IEEE
\* arithmetic x / 0 is Infinity for x > 0 and NaN for x = 0; 100 / Infinity is 0
\* and every operation on NaN gives NaN.
RSIValue(avgGain, avgLoss) ==
    IF avgLoss.num = 0
    THEN IF avgGain.num = 0 THEN NaN ELSE Rat(100, 1)
    ELSE LET rsNum == avgGain.num * avgLoss.den      \* rs = rsNum / rsDen
             rsDen == avgLoss.num * avgGain.den
         IN  Rat(100 * (rsDen + rsNum) - 100 * rsDen, rsDen + rsNum)

\* lines 81-82 and 122: (avg * (period - 1) + x) / period
Smoothed(avg, x, period) == Rat(avg.num * (period - 1) + x * avg.den, avg.den * period)

\* lines 80-87; i is the 0-based loop index into gains and losses
RECURSIVE RSILoop(_, _, _, _, _, _, _)
RSILoop(gains, losses, period, i, avgGain, avgLoss, rsi) ==
    IF i >= Len(gains) THEN rsi
    ELSE LET g == Smoothed(avgGain, gains[i + 1], period)
             l == Smoothed(avgLoss, losses[i + 1], period)
         IN  RSILoop(gains, losses, period, i + 1, g, l,
                     Append(rsi, RSIValue(g, l)))

\* lines 55-90
calculateRSI(prices, period) ==
    IF Len(prices) < period + 1 THEN <<>>
    ELSE LET gains == Gains(prices)
             losses == Losses(prices)
             avgGain == Rat(SumRange(gains, 1, period), period)
             avgLoss == Rat(SumRange(losses, 1, period), period)
         IN  RSILoop(gains, losses, period, period, avgGain, avgLoss,
                     <<RSIValue(avgGain, avgLoss)>>)

AbsDiff(a, b) == IF a >= b THEN a - b ELSE b - a

\* lines 106-113
TrueRanges(highs, lows, closes) ==
    [k \in 1..(Len(highs) - 1) |->
        Max(highs[k + 1] - lows[k + 1],
            Max(AbsDiff(highs[k + 1], closes[k]), AbsDiff(lows[k + 1], closes[k])))]

\* lines 121-124
RECURSIVE ATRLoop(_, _, _, _, _)
ATRLoop(trueRanges, period, i, avgTR, atr) ==
    IF i >= Len(trueRanges) THEN atr
    ELSE LET a == Smoothed(avgTR, trueRanges[i + 1], period)
         IN  ATRLoop(trueRanges, period, i + 1, a, Append(atr, a))

\* lines 100-128, for highs, lows and closes of one length
calculateATR(highs, lows, closes, period) ==
    IF Len(highs) < period + 1 THEN <<>>
    ELSE LET trueRanges == TrueRanges(highs, lows, closes)
             avgTR == Rat(SumRange(trueRanges, 1, period), period)
         IN  ATRLoop(trueRanges, period, period, avgTR, <<avgTR>>)

----------------------------------------------------------------------------
(* generateTradingSignal on a candle history.  A history is given by whether   *)
(* it is there at all, its length, and the latest values its closes, highs and *)
(* lows lead the indicators to.                                                *)

MinCandles == 50

HasEnoughCandlesOrOneLess(length) == length >= MinCandles - 1

\* line 136: candleData.length < 50 is what turns a history away
HasEnoughCandles(length) == length >= MinCandles

\* values calculateEMA returns on n prices (lines 28, 38, 41)
EMACount(n, period) == IF n < period THEN 0 ELSE 1 + (n - period)

\* values calculateRSI and calculateATR return on n prices (lines 56, 76, 80)
WilderCount(n, period) == IF n < period + 1 THEN 0 ELSE 1 + ((n - 1) - period)

\* lines 136-138 and 150-152
NoSignal == [signal |-> "neutral", confidence |-> 0, indicators |-> FALSE]

\* lines 135-220; confidence is x 3 as in generateTradingSignal above
generateTradingSignalFor(candleData) ==
    IF ~candleData.present \/ ~HasEnoughCandles(candleData.length)
    THEN NoSignal
    ELSE IF \/ WilderCount(candleData.length, 14) = 0
            \/ EMACount(candleData.length, 5) = 0
            \/ EMACount(candleData.length, 20) = 0
    THEN NoSignal
    ELSE LET s == generateTradingSignal(candleData.rsi, candleData.ema5,
                                        candleData.ema20, candleData.atr,
                                        candleData.price)
         IN  [signal |-> s.signal, confidence |-> s.confidence, indicators |-> TRUE]

----------------------------------------------------------------------------
(* Calls of the analysis functions on inputs from bounded sets *)

PriceValues == {100, 101}

\* a flat step, rises of two sizes and falls of two sizes
RSIPriceValues == {100, 101, 103}

Periods == {2, 3}

SeriesOver(values) == UNION {[1..n -> values] : n \in 0..MaxSeries}

\* high, low, close
CandleValues == {<<101, 99, 100>>, <<104, 101, 103>>}

CandleCounts == {0, 49, 50, 51}

Histories ==
    {[present |-> FALSE, length |-> 0, rsi |-> 50, ema5 |-> 100, ema20 |-> 100,
      atr |-> 4, price |-> 100]}
    \cup [present : {TRUE}, length : CandleCounts, rsi : {20, 30, 50, 70, 80},
          ema5 : {99, 100, 101}, ema20 : {100}, atr : ATRs, price : {99, 100, 101}]

LevelATRs == {0, 4, 7}

EvalSMA ==
    /\ \E prices \in SeriesOver(PriceValues), period \in Periods :
         calc' = [fn |-> "calculateSMA", prices |-> prices, period |-> period,
                  result |-> calculateSMA(prices, period)]
    /\ UNCHANGED <<now, positions, tradingState, getRecentCandlesBound,
                   entriesSinceNeutral, op, inFlight, bt, retry, autoTrading, websocketManager>>

EvalEMA ==
    /\ \E prices \in SeriesOver(PriceValues), period \in Periods :
         calc' = [fn |-> "calculateEMA", prices |-> prices, period |-> period,
                  result |-> calculateEMA(prices, period)]
    /\ UNCHANGED <<now, positions, tradingState, getRecentCandlesBound,
                   entriesSinceNeutral, op, inFlight, bt, retry, autoTrading, websocketManager>>

EvalRSI ==
    /\ \E prices \in SeriesOver(RSIPriceValues), period \in Periods :
         calc' = [fn |-> "calculateRSI", prices |-> prices, period |-> period,
                  result |-> calculateRSI(prices, period)]
    /\ UNCHANGED <<now, positions, tradingState, getRecentCandlesBound,
                   entriesSinceNeutral, op, inFlight, bt, retry, autoTrading, websocketManager>>

EvalATR ==
    /\ \E candles \in SeriesOver(CandleValues), period \in Periods :
         calc' = [fn |-> "calculateATR", prices |-> candles, period |-> period,
                  result |-> calculateATR([k \in 1..Len(candles) |-> candles[k][1]],
                                          [k \in 1..Len(candles) |-> candles[k][2]],
                                          [k \in 1..Len(candles) |-> candles[k][3]],
                                          period)]
    /\ UNCHANGED <<now, positions, tradingState, getRecentCandlesBound,
                   entriesSinceNeutral, op, inFlight, bt, retry, autoTrading, websocketManager>>

EvalSignal ==
    /\ \E candleData \in Histories :
         calc' = [fn |-> "generateTradingSignal", candleData |-> candleData,
                  result |-> generateTradingSignalFor(candleData)]
    /\ UNCHANGED <<now, positions, tradingState, getRecentCandlesBound,
                   entriesSinceNeutral, op, inFlight, bt, retry, autoTrading, websocketManager>>

EvalLevels ==
    /\ \E entryPrice \in Prices, atr \in LevelATRs, direction \in LedgerDirections :
         calc' = [fn |-> "calculateDynamicLevels", entryPrice |-> entryPrice,
                  atr |-> atr, direction |-> direction,
                  result |-> calculateDynamicLevels(entryPrice, atr, direction)]
    /\ UNCHANGED <<now, positions, tradingState, getRecentCandlesBound,
                   entriesSinceNeutral, op, inFlight, bt, retry, autoTrading, websocketManager>>

NextAnalysis == EvalSMA \/ EvalEMA \/ EvalRSI \/ EvalATR \/ EvalSignal \/ EvalLevels

SpecAnalysis == Init /\ [][NextAnalysis]_vars

----------------------------------------------------------------------------
(* Claims about the analysis functions *)

IsCall(fn) == calc.fn = fn

\* the three votes as the claim counts them
BullishVotes(h) ==
    (IF h.rsi < 30 THEN 1 ELSE 0) + (IF h.ema5 > h.ema20 THEN 1 ELSE 0)
    + (IF h.price > h.ema20 THEN 1 ELSE 0)

BearishVotes(h) ==
    (IF h.rsi > 70 THEN 1 ELSE 0) + (IF h.ema5 < h.ema20 THEN 1 ELSE 0)
    + (IF h.price < h.ema20 THEN 1 ELSE 0)

\* C14: generateTradingSignal returns a confidence in [0, 100], and 'bullish' or
\* 'bearish' only with confidence >= 60 and strictly more votes for that side
\* than for the other.  (Confidence is held x 3: 300 is 100 %, 180 is 60 %.)
C14_SignalContract ==
    IsCall("generateTradingSignal") =>
        LET r == calc.result
            h == calc.candleData
        IN  /\ r.confidence >= 0 /\ r.confidence <= 300
            /\ r.signal \in {"bullish", "bearish", "neutral"}
            /\ r.signal = "bullish" =>
                   r.confidence >= 180 /\ BullishVotes(h) > BearishVotes(h)
            /\ r.signal = "bearish" =>
                   r.confidence >= 180 /\ BearishVotes(h) > BullishVotes(h)

\* a two-to-one vote: RSI above 70 against EMA5 and the price above EMA20
C14_Witness ==
    /\ IsCall("generateTradingSignal")
    /\ calc.result.signal = "bullish"
    /\ calc.result.confidence = 200
    /\ BearishVotes(calc.candleData) = 1

\* C15: on a missing history, or on fewer than 50 candles, generateTradingSignal
\* returns 'neutral' with confidence 0 and no indicators.
C15_InsufficientData ==
    (/\ IsCall("generateTradingSignal")
     /\ (~calc.candleData.present \/ calc.candleData.length < 50))
    => calc.result = [signal |-> "neutral", confidence |-> 0, indicators |-> FALSE]

\* 49 candles whose latest values would vote three to nothing
C15_Witness ==
    /\ IsCall("generateTradingSignal")
    /\ calc.candleData.present
    /\ calc.candleData.length = 49
    /\ BullishVotes(calc.candleData) = 3
    /\ calc.result.signal = "neutral"

\* the levels lie on opposite sides of the entry, the take profit one and a
\* half times as far away as the stop loss
LevelsInProportion(entry, direction, levels) ==
    IF direction = "buy"
    THEN /\ levels.stopLoss < entry /\ entry < levels.takeProfit
         /\ 2 * (levels.takeProfit - entry) = 3 * (entry - levels.stopLoss)
    ELSE /\ levels.takeProfit < entry /\ entry < levels.stopLoss
         /\ 2 * (entry - levels.takeProfit) = 3 * (levels.stopLoss - entry)

\* C16 as stated: for every entry price and every non-negative ATR,
\* calculateDynamicLevels gives stopLoss < entry < takeProfit for 'buy' (the
\* mirror image for 'sell') with the distances in the ratio 1.5.
C16_LevelsForAnyATR ==
    (IsCall("calculateDynamicLevels") /\ calc.atr >= 0)
    => LevelsInProportion(calc.entryPrice, calc.direction, calc.result)

\* C16 amended: the same for every positive ATR; with ATR 0 both levels are the
\* entry price itself.
C16_LevelsForPositiveATR ==
    /\ (IsCall("calculateDynamicLevels") /\ calc.atr > 0)
       => LevelsInProportion(calc.entryPrice, calc.direction, calc.result)
    /\ (IsCall("calculateDynamicLevels") /\ calc.atr = 0)
       => /\ calc.result.stopLoss = calc.entryPrice
          /\ calc.result.takeProfit = calc.entryPrice

C16_Witness ==
    /\ IsCall("calculateDynamicLevels")
    /\ calc.direction = "sell"
    /\ calc.atr = 7
    /\ calc.result.takeProfit = calc.entryPrice - 21

\* no fall among the first n steps of the series: every loss that has entered
\* the average by then is zero
NoLossThrough(prices, n) == \A j \in 1..n : prices[j + 1] >= prices[j]

\* C17: every value calculateRSI returns lies in [0, 100], and a value whose
\* average loss is zero is exactly 100, a flat series included; no value is
\* NaN.  (Refuted by the code on a flat series.)
C17_RSIRange ==
    IsCall("calculateRSI") =>
        \A k \in 1..Len(calc.result) :
            LET v == calc.result[k]
            IN  /\ ~v.nan
                /\ 0 <= v.num /\ v.num <= 100 * v.den
                /\ NoLossThrough(calc.prices, calc.period + (k - 1))
                   => v.num = 100 * v.den

\* C18: on a series shorter than period (calculateSMA, calculateEMA) or shorter
\* than period + 1 (calculateRSI, calculateATR) the indicator returns the empty
\* sequence; on any other series SMA and EMA return len - period + 1 values.
C18_IndicatorLengths ==
    /\ (IsCall("calculateSMA") \/ IsCall("calculateEMA")) =>
          IF Len(calc.prices) < calc.period
          THEN calc.result = <<>>
          ELSE Len(calc.result) = Len(calc.prices) - calc.period + 1
    /\ (IsCall("calculateRSI") \/ IsCall("calculateATR")) =>
          (Len(calc.prices) < calc.period + 1 => calc.result = <<>>)

\* an EMA over four prices with period 2: the seed and two smoothed values
C18_Witness ==
    /\ IsCall("calculateEMA")
    /\ Len(calc.prices) = 4
    /\ calc.period = 2
    /\ Len(calc.result) = 3
    /\ calc.result[1] # calc.result[3]

----------------------------------------------------------------------------
(* runBacktest (utils/backtest.js).  The candle loop is taken one candle at a  *)
(* step; a candle is given by its close and by the signal generateTradingSignal *)
(* gives on the history up to it.  Money is in USDT, sizes in units of 1e-4.   *)

MaxBacktestCandles == 3     \* candles one run steps through

\* lines 13-20: the config of testBacktest and its variations
BacktestConfigs ==
    [initialBalance : {1000}, maxPositions : {0, 3}, minSignalConfidence : {60, 100},
     enableStopLoss : BOOLEAN, enableTakeProfit : BOOLEAN]

\* lines 67-69 and 146-148
BacktestPnl(position, price) ==
    IF position.direction = "buy"
    THEN ((price - position.entryPrice) * position.size) \div 10000
    ELSE ((position.entryPrice - price) * position.size) \div 10000

\* lines 42-63: the reason a position is closed for on this candle, "" for none
CloseReason(b, position, close) ==
    LET stopped ==
            /\ b.config.enableStopLoss
            /\ \/ position.direction = "buy" /\ close <= position.stopLoss
               \/ position.direction = "sell" /\ close >= position.stopLoss
        taken ==
            /\ b.config.enableTakeProfit
            /\ \/ position.direction = "buy" /\ close >= position.takeProfit
               \/ position.direction = "sell" /\ close <= position.takeProfit
    IN  IF stopped THEN "Stop Loss" ELSE IF taken THEN "Take Profit" ELSE ""

\* lines 71-90 and 150-168: the books after one position is closed
Booked(b, position, price, reason) ==
    LET pnl == BacktestPnl(position, price)
    IN  [b EXCEPT !.balance = @ + pnl,
                  !.totalTrades = @ + 1,
                  !.winningTrades = IF pnl > 0 THEN @ + 1 ELSE @,
                  !.losingTrades = IF pnl > 0 THEN @ ELSE @ + 1,
                  !.trades = Append(@, [direction |-> position.direction,
                                        entryPrice |-> position.entryPrice,
                                        exitPrice |-> price,
                                        size |-> position.size,
                                        pnl |-> pnl, reason |-> reason])]

\* lines 40-97: positions.filter over the positions of before, from the k-th on;
\* kept collects the positions that stay
RECURSIVE FilterFrom(_, _, _, _, _)
FilterFrom(b, before, k, close, kept) ==
    IF k > Len(before) THEN [b EXCEPT !.positions = kept]
    ELSE IF ~(b.config.enableStopLoss \/ b.config.enableTakeProfit)
    THEN [b EXCEPT !.positions = before]
    ELSE LET position == before[k]
             reason == CloseReason(b, position, close)
         IN  IF reason # ""
             THEN FilterFrom(Booked(b, position, close, reason), before, k + 1, close, kept)
             ELSE FilterFrom(b, before, k + 1, close, Append(kept, position))

\* lines 100-102; the signal's confidence is x 3
EntryQualifies(b, signal) ==
    /\ signal.confidence >= 3 * b.config.minSignalConfidence
    /\ signal.signal # "neutral"
    /\ Len(b.positions) < b.config.maxPositions

\* lines 104-105: inside the block of the if, positionSize is the const that
\* line 105 declares, and line 104 reads it before the declaration has run:
\* a ReferenceError, which nothing in runBacktest catches
Entered(b) == [b EXCEPT !.status = "threw", !.entries = @ + 1]

\* lines 129-140, the drawdown in hundredths of a per cent
RECURSIVE PositionsValue(_, _, _)
PositionsValue(ps, k, close) ==
    IF k > Len(ps) THEN 0
    ELSE (ps[k].size * close) \div 10000 + PositionsValue(ps, k + 1, close)

Marked(b, close) ==
    LET currentTotalValue == b.balance + PositionsValue(b.positions, 1, close)
        drawdown == ((b.peakBalance - currentTotalValue) * 10000) \div b.peakBalance
    IN  IF currentTotalValue > b.peakBalance
        THEN [b EXCEPT !.peakBalance = currentTotalValue]
        ELSE [b EXCEPT !.maxDrawdown = Max(@, drawdown)]

\* lines 33-140: one turn of the loop
Candle(b, close, signal) ==
    LET filtered == FilterFrom(b, b.positions, 1, close, <<>>)
        seen == [filtered EXCEPT !.i = @ + 1, !.finalPrice = close,
                                 !.signal = signal.signal,
                                 !.series = Append(@, <<close, signal>>)]
    IN  IF EntryQualifies(seen, signal) THEN Entered(seen) ELSE Marked(seen, close)

\* lines 143-169: positions.forEach books each position that is left; the
\* positions array itself is not emptied
RECURSIVE ForceClose(_, _)
ForceClose(b, k) ==
    IF k > Len(b.positions) THEN b
    ELSE ForceClose(Booked(b, b.positions[k], b.finalPrice, "End of backtest"), k + 1)

\* a variant in which the loop index is kept between calls
StartedWhereLeft(config, left) ==
    [status |-> "running", config |-> config,
     i |-> IF left.status = "none" THEN 0 ELSE left.i,
     balance |-> config.initialBalance, positions |-> <<>>,
     trades |-> <<>>, totalTrades |-> 0, winningTrades |-> 0,
     losingTrades |-> 0, maxDrawdown |-> 0,
     peakBalance |-> config.initialBalance,
     entries |-> 0, finalPrice |-> 0, signal |-> "none", series |-> <<>>]

\* lines 12-32: every local of the call is initialised from config; left is
\* what an earlier call left behind, and nothing of it is read.  series is the
\* history of the candles the loop has been through.
Started(config, left) ==
    [status |-> "running", config |-> config, i |-> 0,
     balance |-> config.initialBalance, positions |-> <<>>,
     trades |-> <<>>, totalTrades |-> 0, winningTrades |-> 0,
     losingTrades |-> 0, maxDrawdown |-> 0,
     peakBalance |-> config.initialBalance,
     entries |-> 0, finalPrice |-> 0, signal |-> "none", series |-> <<>>]

\* lines 143-193
Finished(b) == [ForceClose(b, 1) EXCEPT !.status = "returned"]

\* lines 32-141 over a given series, from its k-th candle on
RECURSIVE RunOver(_, _, _)
RunOver(b, series, k) ==
    IF k > Len(series) \/ b.status = "threw" THEN b
    ELSE RunOver(Candle(b, series[k][1], series[k][2]), series, k + 1)

\* lines 12-194: one whole call
runBacktest(historicalData, config, left) ==
    LET b == RunOver(Started(config, left), historicalData, 1)
    IN  IF b.status = "threw" THEN b ELSE Finished(b)

\* lines 12-29
BacktestStart ==
    /\ bt.status = "none"
    /\ \E config \in BacktestConfigs : bt' = Started(config, bt)
    /\ UNCHANGED <<now, positions, tradingState, getRecentCandlesBound,
                   entriesSinceNeutral, op, inFlight, calc, retry, autoTrading, websocketManager>>

\* lines 32-141
BacktestCandle ==
    /\ bt.status = "running"
    /\ bt.i < MaxBacktestCandles
    /\ \E close \in Prices, signal \in Signals : bt' = Candle(bt, close, signal)
    /\ UNCHANGED <<now, positions, tradingState, getRecentCandlesBound,
                   entriesSinceNeutral, op, inFlight, calc, retry, autoTrading, websocketManager>>

\* lines 143-193: the series is through
BacktestFinish ==
    /\ bt.status = "running"
    /\ bt.i >= 1
    /\ bt' = Finished(bt)
    /\ UNCHANGED <<now, positions, tradingState, getRecentCandlesBound,
                   entriesSinceNeutral, op, inFlight, calc, retry, autoTrading, websocketManager>>

\* runBacktest is called once more, on the candles and the config of the call
\* that is over, and the two outcomes are put side by side
BacktestAgain ==
    /\ bt.status \in {"returned", "threw"}
    /\ bt' = [status |-> "compared", first |-> bt,
              second |-> runBacktest(bt.series, bt.config, bt)]
    /\ UNCHANGED <<now, positions, tradingState, getRecentCandlesBound,
                   entriesSinceNeutral, op, inFlight, calc, retry, autoTrading, websocketManager>>

\* calls of runBacktest while the clock advances
NextRerun ==
    \/ Tick
    \/ BacktestStart
    \/ BacktestCandle
    \/ BacktestFinish
    \/ BacktestAgain

SpecRerun == Init /\ [][NextRerun]_vars

NextBacktest == BacktestStart \/ BacktestCandle \/ BacktestFinish

SpecBacktest == Init /\ [][NextBacktest]_vars

----------------------------------------------------------------------------
(* Claims about runBacktest *)

BacktestOver == bt.status \in {"returned", "threw"}

\* C19: runBacktest returns its results object on every series and config,
\* also when a candle gives a non-neutral signal with confidence >=
\* minSignalConfidence while fewer than maxPositions positions are open.
\* (Refuted by the code: that candle ends the run with a ReferenceError.)
C19_BacktestReturns == BacktestOver => bt.status = "returned"

----------------------------------------------------------------------------
(* Claims about exits and entries of the cycle *)

\* the cycle got as far as managePositions (line 355)
ReachedManagement(o) ==
    IsCycle(o) /\ Len(o.events) >= 3 /\ o.events[3] = "signal"

IsLong(p) == p.direction \in {"buy", "bullish"}

\* the exit condition of the claim, by the side the position was opened on
ExitConditionHolds(p, price) ==
    IF IsLong(p)
    THEN price <= p.stopLoss \/ price >= p.takeProfit
    ELSE price >= p.stopLoss \/ price <= p.takeProfit

OpposingSide(p) == IF IsLong(p) THEN "sell" ELSE "buy"

\* C22: in a cycle that reaches position management, every open position whose
\* exit condition holds at the cycle's price gets an opposing-side order for
\* its full size in that cycle.  (Refuted by the code: the positions the cycle
\* opens carry the directions 'bullish' and 'bearish', which managePositions
\* does not know.)
C22_ExitTriggered ==
    [][ ReachedManagement(op') =>
          \A i \in 1..Len(positions) :
              (positions[i].status = "open"
               /\ ExitConditionHolds(positions[i], op'.price))
              => \E k \in 1..Len(op'.orders) :
                    /\ op'.orders[k].kind = "close"
                    /\ op'.orders[k].side = OpposingSide(positions[i])
                    /\ op'.orders[k].size = toFixed6(positions[i].size) ]_vars

\* the closing order a cycle placed for position p, with the answer res
ClosingOrderFor(o, p, res) ==
    \E k \in 1..Len(o.orders) :
        /\ o.orders[k].kind = "close"
        /\ o.orders[k].side = ClosingSide(p)
        /\ o.orders[k].size = toFixed6(p.size)
        /\ o.orders[k].res \in res

C24_LevelsMatchDirection ==
    [][ (IsCycle(op') /\ Len(positions') > Len(positions)) =>
          LET p == Last(positions')
          IN  /\ op'.signal = "bullish"
                 => p.stopLoss < p.entryPrice /\ p.entryPrice < p.takeProfit
              /\ op'.signal = "bearish"
                 => p.takeProfit < p.entryPrice /\ p.entryPrice < p.stopLoss ]_vars

\* C25: a cycle whose signal has a confidence below MIN_SIGNAL_CONFIDENCE (60;
\* 180 on the x 3 scale) places no entry order and adds no position.
C25_ConfidenceGate ==
    [][ (ReachedManagement(op') /\ op'.confidence < 180) =>
          /\ EntryOrders(op'.orders) = {}
          /\ Len(positions') = Len(positions) ]_vars

\* one vote each way (confidence 50), with room for one more position and
\* fewer than MAX_CONSECUTIVE_TRADES trades counted
C25_Witness ==
    /\ ReachedManagement(op)
    /\ op.confidence = 150
    /\ op.path = "lowConfidence"
    /\ Len(positions) \in 1..(MAX_POSITIONS - 1)
    /\ tradingState.consecutiveTrades < MAX_CONSECUTIVE_TRADES

\* C26: within a cycle every closing order is placed before any entry order,
\* and a cycle that the confidence gate or the overtrading guard stops has
\* placed the closing order of every position managePositions found due.
C26_ExitsBeforeEntries ==
    [][ IsCycle(op') =>
          /\ \A j, k \in 1..Len(op'.orders) :
                (op'.orders[j].kind = "close" /\ op'.orders[k].kind # "close")
                => j < k
          /\ op'.path \in {"lowConfidence", "overtrading"}
             => \A i \in Triggered(positions, op'.price) :
                   ClosingOrderFor(op', positions[i], OrderResults) ]_vars

\* a cycle that closed a position and then opened one
C26_Witness ==
    /\ IsCycle(op)
    /\ Len(op.orders) = 2
    /\ op.orders[1].kind = "close" /\ op.orders[1].res = "ok"
    /\ op.orders[2].kind = "new" /\ op.orders[2].res = "ok"

\* C27: a cycle with the gate open, inside trading hours, whose price and
\* balance fetches answered, asks the exchange for the candles, and unless the
\* exchange fails to deliver 50 of them goes on to the signal and to position
\* management.  (Refuted by the code as wired: getRecentCandles is no binding
\* of the module, and the cycle ends in its catch block.)
C27_SnapshotProceeds ==
    (/\ IsCycle(op)
     /\ op.path \notin {"disabled", "paused", "noPrice"}
     /\ op.thrownAt \notin {"switch", "price", "balance"})
    => \/ ReachedManagement(op)
       \/ Len(op.fetched) = 3 /\ op.fetched[3] = "candles"

\* C28: consecutiveTrades goes up by one for every entry order of a cycle that
\* was filled, new position or scale-in alike, and a cycle without one leaves
\* it alone (the reset on a neutral signal apart).  (Refuted by the code for
\* the scale-in.)
C28_CountsEveryEntry ==
    [][ IsCycle(op') =>
          /\ FilledEntries(op'.orders) > 0
             => tradingState'.consecutiveTrades
                  = tradingState.consecutiveTrades + FilledEntries(op'.orders)
          /\ (FilledEntries(op'.orders) = 0 /\ op'.path # "neutral")
             => tradingState'.consecutiveTrades = tradingState.consecutiveTrades ]_vars

----------------------------------------------------------------------------
(* runBacktest and runEnhancedAutoTrade side by side *)

\* the configuration testBacktest hands to runBacktest
SideBySideConfig ==
    [initialBalance |-> 1000, maxPositions |-> 3, minSignalConfidence |-> 60,
     enableStopLoss |-> TRUE, enableTakeProfit |-> TRUE]

\* runBacktest is called, beside an engine that has not traded yet
SideBySideStart ==
    /\ bt.status = "none"
    /\ positions = <<>>
    /\ bt' = Started(SideBySideConfig, bt)
    /\ UNCHANGED <<now, positions, tradingState, getRecentCandlesBound,
                   entriesSinceNeutral, op, inFlight, calc, retry, autoTrading, websocketManager>>

\* one step: the same price and the same signal go through one cycle of
\* runEnhancedAutoTrade, every order of which the exchange fills, and through
\* one turn of the loop of runBacktest
SideBySideStep ==
    /\ bt.status = "running"
    /\ bt.i < MaxBacktestCandles
    /\ getRecentCandlesBound
    /\ \E report \in OpenGateReports, currentPrice \in Prices,
          availableUSDT \in Balances, signal \in Signals :
         LET closeRes == [i \in Triggered(positions, currentPrice) |-> "ok"]
             out == CycleBody(positions, tradingState, now, currentPrice,
                              availableUSDT, signal, closeRes, "ok")
             o == [Cycle(report, out.path) EXCEPT
                      !.signal = signal.signal, !.confidence = signal.confidence,
                      !.price = currentPrice, !.balance = availableUSDT,
                      !.fetched = <<"price", "balance", "candles">>,
                      !.orders = out.orders, !.events = out.events]
         IN  /\ positions' = out.positions
             /\ tradingState' = out.tradingState
             /\ now' = IF Len(out.positions) > Len(positions) THEN now + 1 ELSE now
             /\ entriesSinceNeutral' =
                  IF signal.signal = "neutral" THEN 0
                  ELSE IF entriesSinceNeutral + FilledEntries(out.orders)
                            > MAX_CONSECUTIVE_TRADES
                  THEN MAX_CONSECUTIVE_TRADES
                  ELSE entriesSinceNeutral + FilledEntries(out.orders)
             /\ op' = o
             /\ bt' = Candle(bt, currentPrice, signal)
    /\ UNCHANGED <<getRecentCandlesBound, inFlight, calc, retry, autoTrading, websocketManager>>

NextSideBySide == SideBySideStart \/ SideBySideStep

SpecSideBySide == Init /\ [][NextSideBySide]_vars

\* what the engine did between two states: the positions it opened, as
\* direction and entry price, and the positions it closed, as entry price and
\* reason
LiveOpened(before, after) ==
    {<<after[i].direction, after[i].entryPrice>> : i \in (Len(before) + 1)..Len(after)}

LiveClosed(before, after) ==
    {<<after[i].entryPrice, after[i].exit[1].reason>> :
        i \in {j \in 1..Len(before) : before[j].status = "open" /\ after[j].status = "closed"}}

\* the same of the backtest: a trade is booked for every position closed, and
\* a position opened is the one more that positions holds after the closed
\* ones have left
BacktestClosed(before, after) ==
    {<<after.trades[k].entryPrice, after.trades[k].reason>> :
        k \in (Len(before.trades) + 1)..Len(after.trades)}

BacktestOpened(before, after) ==
    LET stayed == Len(before.positions) - (Len(after.trades) - Len(before.trades))
    IN  {<<after.positions[k].direction, after.positions[k].entryPrice>> :
            k \in (stayed + 1)..Len(after.positions)}

\* C29: at every step of the two side by side, the backtest has seen the step
\* through (it has not thrown) and opened what the engine opened and closed
\* what the engine closed, for the same reasons.  (Refuted by the code: the
\* backtest throws at the first candle on which it would open a position.)
C29_SameDecisions ==
    [][ (bt.status = "running" /\ bt'.i = bt.i + 1)
        => /\ bt'.status = "running"
           /\ BacktestOpened(bt, bt') = LiveOpened(positions, positions')
           /\ BacktestClosed(bt, bt') = LiveClosed(positions, positions') ]_vars

----------------------------------------------------------------------------
(* retryRequest *)

\* RATE_LIMIT.maxRetries and RATE_LIMIT.retryDelay, the latter in milliseconds
RATE_LIMIT_maxRetries == 3

RATE_LIMIT_retryDelay == 1000

\* how requestFn can end: it returns, or it throws an error that carries the
\* HTTP status of the response, or one that carries no response at all
RequestOutcomes == {"ok", "429", "403", "500", "noResponse"}

\* line 57, and a variant that takes the attempt after the last for the last
isLastAttemptLate(attempt, maxRetries) == attempt = maxRetries + 1

isLastAttempt(attempt, maxRetries) == attempt = maxRetries

\* line 58
isRateLimitError(outcome) == outcome \in {"429", "403"}

\* lines 70-80: the time the catch block waits for
RetryWait(attempt, outcome) ==
    IF isRateLimitError(outcome)
    THEN RATE_LIMIT_retryDelay * 2 ^ (attempt - 1)
    ELSE RATE_LIMIT_retryDelay

\* lines 51-52: retryRequest(requestFn) is called, maxRetries left to its
\* default; the loop is entered when 1 <= maxRetries
RetryRequestCalled ==
    /\ retry.status \in {"none", "returned", "threw"}
    /\ \E maxRetries \in {RATE_LIMIT_maxRetries} :
         retry' = [NoRetry EXCEPT
                     !.status = IF 1 <= maxRetries THEN "attempting" ELSE "returned",
                     !.maxRetries = maxRetries, !.attempt = 1]
    /\ UNCHANGED <<now, positions, tradingState, getRecentCandlesBound,
                   entriesSinceNeutral, op, inFlight, bt, calc, autoTrading, websocketManager>>

\* lines 53-80 up to the setTimeout: rateLimit() has or has not made the
\* attempt wait (that depends on the clock and on the other callers), the
\* request function is called once, and its result is returned, or its error
\* is thrown on, or the wait is chosen
Attempted(r, waited, outcome) ==
    LET called == [r EXCEPT !.calls = @ + 1, !.outcomes = Append(@, outcome),
                            !.throttled = Append(@, waited)]
    IN  IF outcome = "ok" THEN [called EXCEPT !.status = "returned"]
        ELSE IF isLastAttempt(r.attempt, r.maxRetries)
        THEN [called EXCEPT !.status = "threw", !.error = outcome]
        ELSE [called EXCEPT !.status = "waiting",
                            !.delays = Append(@, RetryWait(r.attempt, outcome))]

RetryAttempt ==
    /\ retry.status = "attempting"
    /\ \E waited \in BOOLEAN, outcome \in RequestOutcomes :
         retry' = Attempted(retry, waited, outcome)
    /\ UNCHANGED <<now, positions, tradingState, getRecentCandlesBound,
                   entriesSinceNeutral, op, inFlight, bt, calc, autoTrading, websocketManager>>

\* lines 74 and 79, then line 52: the timer fires, attempt++ and the test of
\* the loop; past maxRetries the function falls off its end and returns
\* undefined
RetryWaited ==
    /\ retry.status = "waiting"
    /\ retry' = [retry EXCEPT
                   !.attempt = @ + 1,
                   !.status = IF retry.attempt + 1 <= retry.maxRetries
                              THEN "attempting" ELSE "returned"]
    /\ UNCHANGED <<now, positions, tradingState, getRecentCandlesBound,
                   entriesSinceNeutral, op, inFlight, bt, calc, autoTrading, websocketManager>>

NextRetry == RetryRequestCalled \/ RetryAttempt \/ RetryWaited

\* the request function settles and the timers fire
SpecRetry ==
    Init /\ [][NextRetry]_vars /\ WF_vars(RetryAttempt) /\ WF_vars(RetryWaited)

\* what retryRequest has done so far is within what it may do: no more calls
\* than maxRetries, every call but the last a failure, a return only on a
\* success, a throw only of the error of the maxRetries-th call, and after the
\* k-th failure that is not the last the wait of the k-th attempt
RetryWithinBudget ==
    /\ retry.calls <= RATE_LIMIT_maxRetries
    /\ retry.calls = Len(retry.outcomes)
    /\ \A k \in 1..(retry.calls - 1) : retry.outcomes[k] # "ok"
    /\ retry.status = "returned"
       => retry.calls >= 1 /\ retry.outcomes[retry.calls] = "ok"
    /\ retry.status = "threw"
       => /\ retry.calls = RATE_LIMIT_maxRetries
          /\ retry.outcomes[retry.calls] # "ok"
          /\ retry.error = retry.outcomes[retry.calls]
    /\ Len(retry.delays) =
         Cardinality({k \in 1..retry.calls :
                        retry.outcomes[k] # "ok" /\ k < RATE_LIMIT_maxRetries})
    /\ \A k \in 1..Len(retry.delays) :
         retry.delays[k] = IF retry.outcomes[k] \in {"429", "403"}
                           THEN RATE_LIMIT_retryDelay * 2 ^ (k - 1)
                           ELSE RATE_LIMIT_retryDelay

\* C30: retryRequest calls the request function at most maxRetries (3) times,
\* returns at the first success, throws the last error after the third
\* failure, waits retryDelay * 2^(attempt - 1) after a 429 or a 403 and
\* retryDelay after any other error, and every call of it ends, provided the
\* request function settles.
C30_RetryTerminates ==
    /\ []RetryWithinBudget
    /\ (retry.status = "attempting") ~> (retry.status \in {"returned", "threw"})

\* two failures, the second one rate-limited, then a success
C30_Witness ==
    /\ retry.status = "returned"
    /\ retry.outcomes = <<"500", "429", "ok">>
    /\ retry.delays = <<1000, 2000>>

----------------------------------------------------------------------------
(* The auto_trading switch as the server keeps it: index.js, tradeBot.js,   *)
(* switchManager.js, switchController.js and the Switch model              *)

\* the document DEFAULT_SWITCHES describes for auto_trading
DefaultSwitch ==
    [exists |-> TRUE, isEnabled |-> TRUE, preventAutoDisable |-> TRUE,
     scheduleEnabled |-> FALSE]

\* switchSchema.methods.enable and disable, before the save
Enabled(doc) == [doc EXCEPT !.isEnabled = TRUE, !.preventAutoDisable = TRUE]

Disabled(doc) == [doc EXCEPT !.isEnabled = FALSE]

\* initializeDefaultSwitches on the auto_trading entry: a missing document is
\* created from the defaults, an existing one is brought to the defaults and
\* has isEnabled set to true
Initialized(doc) ==
    IF doc.exists THEN [doc EXCEPT !.preventAutoDisable = TRUE, !.isEnabled = TRUE]
    ELSE DefaultSwitch

\* what getSwitchByName('auto_trading') gives in state s
StoredSwitch(s) == getSwitchByName(s.dbConnected, FALSE, s.doc)

StoredReport(s) == SwitchReport(s.dbConnected, FALSE, s.doc)

\* getAutoTradingStatus of tradeBot.js: the stored flag when the document can
\* be read, false when there is no document, and AUTO_TRADE_ENABLED when
\* isActive() throws
getAutoTradingStatus(s) ==
    LET autoTradingSwitch == StoredSwitch(s)
    IN  IF ~autoTradingSwitch.exists THEN FALSE
        ELSE IF ~autoTradingSwitch.isEnabled THEN FALSE
        ELSE IF isActive(autoTradingSwitch) = "throws" THEN s.AUTO_TRADE_ENABLED
        ELSE isActive(autoTradingSwitch) = "true"

\* enableAutoTrading and disableAutoTrading of tradeBot.js: the document is
\* saved when there is one to read and the save goes through; the local flag
\* is set on every path
enableAutoTrading(s, saveThrows) ==
    [s EXCEPT !.AUTO_TRADE_ENABLED = TRUE,
              !.doc = IF StoredSwitch(s).exists /\ ~saveThrows THEN Enabled(@) ELSE @]

disableAutoTrading(s, saveThrows) ==
    [s EXCEPT !.AUTO_TRADE_ENABLED = FALSE,
              !.doc = IF StoredSwitch(s).exists /\ ~saveThrows THEN Disabled(@) ELSE @]

\* the record of a request: what was asked, and in path the value the answer
\* carries in its field enabled
Request(name, enabled) ==
    [NoOp EXCEPT !.name = name, !.path = IF enabled THEN "true" ELSE "false"]

\* the operations that are there to set the flag
ManualOps == {"enable", "disable", "toggle", "update"}

\* mongoose reports the connection lost, or back
DBConnectionChanges ==
    /\ autoTrading' = [autoTrading EXCEPT !.dbConnected = ~@]
    /\ op' = [NoOp EXCEPT !.name = "connection"]
    /\ UNCHANGED <<now, positions, tradingState, getRecentCandlesBound,
                   entriesSinceNeutral, inFlight, bt, calc, retry, websocketManager>>

\* the process is started again: the module state is that of the declarations,
\* connectDB resolves or throws, and after it has resolved
\* initializeDefaultSwitches runs
Startup ==
    /\ \E connects \in BOOLEAN, saveThrows \in BOOLEAN :
         autoTrading' =
            [NoSwitch EXCEPT
               !.dbConnected = connects,
               !.doc = IF connects /\ ~saveThrows THEN Initialized(autoTrading.doc)
                       ELSE autoTrading.doc]
    /\ positions' = <<>>
    /\ tradingState' = [lastAction |-> "null", lastTradePrice |-> <<>>,
                        consecutiveTrades |-> 0]
    /\ entriesSinceNeutral' = 0
    /\ op' = [NoOp EXCEPT !.name = "startup"]
    /\ UNCHANGED <<now, getRecentCandlesBound, inFlight, bt, calc, retry, websocketManager>>

\* POST /api/autotrade/enable and /disable: the answer says success whatever
\* enableAutoTrading did, for it throws nothing
EnableAutoTrading ==
    /\ \E saveThrows \in BOOLEAN :
         autoTrading' = enableAutoTrading(autoTrading, saveThrows)
    /\ op' = Request("enable", TRUE)
    /\ UNCHANGED <<now, positions, tradingState, getRecentCandlesBound,
                   entriesSinceNeutral, inFlight, bt, calc, retry, websocketManager>>

DisableAutoTrading ==
    /\ \E saveThrows \in BOOLEAN :
         autoTrading' = disableAutoTrading(autoTrading, saveThrows)
    /\ op' = Request("disable", FALSE)
    /\ UNCHANGED <<now, positions, tradingState, getRecentCandlesBound,
                   entriesSinceNeutral, inFlight, bt, calc, retry, websocketManager>>

\* POST /api/autotrade/toggle
ToggleAutoTrading ==
    /\ \E saveThrows \in BOOLEAN :
         IF getAutoTradingStatus(autoTrading)
         THEN /\ autoTrading' = disableAutoTrading(autoTrading, saveThrows)
              /\ op' = Request("toggle", FALSE)
         ELSE /\ autoTrading' = enableAutoTrading(autoTrading, saveThrows)
              /\ op' = Request("toggle", TRUE)
    /\ UNCHANGED <<now, positions, tradingState, getRecentCandlesBound,
                   entriesSinceNeutral, inFlight, bt, calc, retry, websocketManager>>

\* GET /api/autotrade/status
GetAutoTradingStatus ==
    /\ op' = Request("status", getAutoTradingStatus(autoTrading))
    /\ UNCHANGED <<now, positions, tradingState, getRecentCandlesBound,
                   entriesSinceNeutral, inFlight, bt, calc, retry, autoTrading, websocketManager>>

\* PUT /api/switches/:id with isEnabled in the body, and POST
\* /api/switches/:id/toggle: the stored document is written when the database
\* answers and holds it
UpdateSwitch ==
    /\ \E isEnabled \in BOOLEAN, saveThrows \in BOOLEAN :
         /\ autoTrading' =
              IF StoredSwitch(autoTrading).exists /\ ~saveThrows
              THEN [autoTrading EXCEPT !.doc.isEnabled = isEnabled,
                                       !.doc.preventAutoDisable = TRUE]
              ELSE autoTrading
         /\ op' = Request("update", isEnabled)
    /\ UNCHANGED <<now, positions, tradingState, getRecentCandlesBound,
                   entriesSinceNeutral, inFlight, bt, calc, retry, websocketManager>>

\* DELETE /api/switches/:id: the stored document is removed when the database
\* answers
DeleteSwitch ==
    /\ autoTrading' = IF autoTrading.dbConnected
                      THEN [autoTrading EXCEPT !.doc = NoSwitch.doc]
                      ELSE autoTrading
    /\ op' = [NoOp EXCEPT !.name = "delete"]
    /\ UNCHANGED <<now, positions, tradingState, getRecentCandlesBound,
                   entriesSinceNeutral, inFlight, bt, calc, retry, websocketManager>>

\* a cycle of runEnhancedAutoTrade whose line 302 reads this switch; with
\* getRecentCandles unresolved, as the imports leave it, a cycle that passes
\* the gate gets as far as line 339
SwitchCycle ==
    /\ \/ CycleDisabled
       \/ CyclePaused
       \/ CyclePriceFails
       \/ CycleBalanceFails
       \/ CycleCandlesFail
    /\ op'.switch = StoredReport(autoTrading)

NextSwitch ==
    \/ DBConnectionChanges
    \/ Startup
    \/ EnableAutoTrading
    \/ DisableAutoTrading
    \/ ToggleAutoTrading
    \/ GetAutoTradingStatus
    \/ UpdateSwitch
    \/ DeleteSwitch
    \/ SwitchCycle

SpecSwitch == InitLedger /\ [][NextSwitch]_vars

\* C31: the stored flag changes only in an enable, a disable, a toggle or an
\* update: no other step (a cycle, a status query, a start of the process, a
\* change of the connection) changes isEnabled of a stored auto_trading
\* document, and a cycle that finds it disabled is gated off.  (Refuted by the
\* code: the start of the process sets it to true.)
C31_FlagChangesOnlyByHand ==
    [][ /\ (op'.name \notin ManualOps /\ autoTrading.doc.exists /\ autoTrading'.doc.exists)
           => autoTrading'.doc.isEnabled = autoTrading.doc.isEnabled
        /\ (IsCycle(op') /\ StoredReport(autoTrading) = "disabled")
           => op'.path = "disabled" ]_vars

\* C32: the status query that follows a completed enable answers true, and the
\* one that follows a completed disable answers false, whatever the state of
\* the database.  (Refuted by the code for the enable when the document cannot
\* be read.)
C32_StatusAgrees ==
    [][ /\ (op.name = "enable" /\ op'.name = "status") => op'.path = "true"
        /\ (op.name = "disable" /\ op'.name = "status") => op'.path = "false" ]_vars

----------------------------------------------------------------------------
(* runAutoTrade, the candle-direction bot of tradeBot.js                   *)
(* Prices are in cents, USDT in dollars, SOL in millionths.                *)

\* PROFIT_TAKE_PERCENTAGE (0.05) and STOP_LOSS_PERCENTAGE (0.03) in
\* hundredths, MIN_USDT_TO_TRADE, MIN_SOL_TO_TRADE (0.001) in millionths,
\* MIN_ORDER_VALUE_USDT (0.14) in cents, and MAX_CONSECUTIVE_TRADES
PROFIT_TAKE_PERCENTAGE == 5

STOP_LOSS_PERCENTAGE == 3

MIN_USDT_TO_TRADE == 5

MIN_SOL_TO_TRADE == 1000

MIN_ORDER_VALUE_USDT == 14

BotMaxConsecutiveTrades == 3

CandleDirections == {"bullish", "bearish", "neutral", "none"}

CandlePrices == {9700, 10000, 10010, 10500}

AvailableUSDT == {0, 100}

AvailableSOL == {0, 1000000}

BotOrderResults == {"ok", "rejected", "minimum", "throw"}

\* lines 278 and 282: priceChange is ((currentPrice - lastTradePrice) /
\* lastTradePrice) * 100, a number of per cent, and it is compared with 0.05;
\* in whole numbers, (currentPrice - lastTradePrice) * 100 * 100 against
\* 5 * lastTradePrice.  Line 298 is the same with -0.03
ProfitTakeReached(currentPrice, lastTradePrice) ==
    (currentPrice - lastTradePrice) * 100 * 100 >= PROFIT_TAKE_PERCENTAGE * lastTradePrice

StopLossReached(currentPrice, lastTradePrice) ==
    (currentPrice - lastTradePrice) * 100 * 100 <= -(STOP_LOSS_PERCENTAGE * lastTradePrice)

\* (tradeAmount / currentPrice).toFixed(6), in millionths, rounded to nearest:
\* tradeAmount * 100 * 1000000 / currentPrice, taken in two steps to stay
\* within the whole numbers at hand
SolToBuy(tradeAmount, currentPrice) ==
    LET q == (tradeAmount * 1000000) \div currentPrice
        r == (tradeAmount * 1000000) % currentPrice
    IN  q * 100 + (2 * r * 100 + currentPrice) \div (2 * currentPrice)

BotOrder(kind, side, size, res) == [kind |-> kind, side |-> side, size |-> size, res |-> res]

\* what a run has come to: the module state, the orders placed, how it ended
BotOutcome(s, orders, path) == [state |-> s, orders |-> orders, path |-> path]

Traded(s, action, currentPrice, counted) ==
    [s EXCEPT !.lastAction = action, !.lastTradePrice = currentPrice,
              !.consecutiveTrades = IF counted THEN @ + 1 ELSE 0]

\* lines 313-400: the overtrading check and the trade by candle direction
TradeByDirection(s, orders, direction, currentPrice, availableUSDT, availableSOL, res, minRes) ==
    IF s.consecutiveTrades >= BotMaxConsecutiveTrades
    THEN BotOutcome(s, orders, "overtrading")
    ELSE IF direction = "bullish" /\ availableUSDT >= MIN_USDT_TO_TRADE
            /\ s.lastAction # "buy"
    THEN IF availableUSDT * 100 < MIN_ORDER_VALUE_USDT
         THEN BotOutcome(s, orders, "belowMinimum")
         ELSE LET size == Max(SolToBuy(availableUSDT, currentPrice), MIN_SOL_TO_TRADE)
                  first == Append(orders, BotOrder("buy", "buy", size, res))
                  second == Append(first, BotOrder("minBuy", "buy", MIN_SOL_TO_TRADE, minRes))
              IN  IF res = "throw" THEN BotOutcome(s, first, "error")
                  ELSE IF res = "ok"
                  THEN BotOutcome(Traded(s, "buy", currentPrice, TRUE), first, "end")
                  ELSE IF res = "minimum"
                  THEN IF minRes = "throw" THEN BotOutcome(s, second, "error")
                       ELSE IF minRes = "ok"
                       THEN BotOutcome(Traded(s, "buy", currentPrice, TRUE), second, "end")
                       ELSE BotOutcome(s, second, "end")
                  ELSE BotOutcome(s, first, "end")
    ELSE IF direction = "bearish" /\ availableSOL >= MIN_SOL_TO_TRADE
            /\ s.lastAction # "sell"
    THEN IF ((availableSOL \div 1000) * currentPrice) \div 1000 < MIN_ORDER_VALUE_USDT
         THEN BotOutcome(s, orders, "belowMinimum")
         ELSE LET placed == Append(orders, BotOrder("sell", "sell", availableSOL, res))
              IN  IF res = "throw" THEN BotOutcome(s, placed, "error")
                  ELSE IF res = "ok"
                  THEN BotOutcome(Traded(s, "sell", currentPrice, TRUE), placed, "end")
                  ELSE BotOutcome(s, placed, "end")
    ELSE IF direction = "neutral"
    THEN BotOutcome([s EXCEPT !.consecutiveTrades = 0], orders, "end")
    ELSE BotOutcome(s, orders, "end")

\* lines 276-310 and what follows them: the profit-taking sell of half the
\* SOL, the stop-loss sell of all of it, each ending the run when it is filled
BotBody(s, direction, currentPrice, availableUSDT, availableSOL, exitRes, res, minRes) ==
    IF direction = "none" THEN BotOutcome(s, <<>>, "noDirection")
    ELSE IF s.lastTradePrice # 0 /\ s.lastAction = "buy" /\ availableSOL > 0
    THEN IF ProfitTakeReached(currentPrice, s.lastTradePrice)
         THEN LET placed == <<BotOrder("profit", "sell", availableSOL \div 2, exitRes)>>
              IN  IF exitRes = "throw" THEN BotOutcome(s, placed, "error")
                  ELSE IF exitRes = "ok"
                  THEN BotOutcome(Traded(s, "sell", currentPrice, FALSE), placed, "profit")
                  ELSE TradeByDirection(s, placed, direction, currentPrice,
                                        availableUSDT, availableSOL, res, minRes)
         ELSE IF StopLossReached(currentPrice, s.lastTradePrice)
         THEN LET placed == <<BotOrder("stop", "sell", availableSOL, exitRes)>>
              IN  IF exitRes = "throw" THEN BotOutcome(s, placed, "error")
                  ELSE IF exitRes = "ok"
                  THEN BotOutcome(Traded(s, "sell", currentPrice, FALSE), placed, "stop")
                  ELSE TradeByDirection(s, placed, direction, currentPrice,
                                        availableUSDT, availableSOL, res, minRes)
         ELSE TradeByDirection(s, <<>>, direction, currentPrice,
                               availableUSDT, availableSOL, res, minRes)
    ELSE TradeByDirection(s, <<>>, direction, currentPrice,
                          availableUSDT, availableSOL, res, minRes)

\* the answers the exchange can give to the sell of lines 282-310; they are
\* told apart only in a run that places it
ExitResults(s, currentPrice, availableSOL) ==
    IF /\ s.lastTradePrice # 0 /\ s.lastAction = "buy" /\ availableSOL > 0
       /\ \/ ProfitTakeReached(currentPrice, s.lastTradePrice)
          \/ StopLossReached(currentPrice, s.lastTradePrice)
    THEN BotOrderResults \ {"minimum"}
    ELSE {"ok"}

\* lines 236-403: one run of runAutoTrade
RunAutoTrade ==
    /\ IF ~getAutoTradingStatus(autoTrading)
       THEN /\ autoTrading' = [autoTrading EXCEPT !.AUTO_TRADE_ENABLED = FALSE]
            /\ op' = [NoOp EXCEPT !.name = "autoTrade", !.path = "disabled"]
       ELSE \E direction \in CandleDirections, currentPrice \in CandlePrices,
               availableUSDT \in AvailableUSDT, availableSOL \in AvailableSOL,
               res \in BotOrderResults :
             \E exitRes \in ExitResults(autoTrading, currentPrice, availableSOL),
                minRes \in IF res = "minimum" THEN BotOrderResults \ {"minimum"}
                           ELSE {"ok"} :
              LET out == BotBody([autoTrading EXCEPT !.AUTO_TRADE_ENABLED = TRUE],
                                 direction, currentPrice, availableUSDT, availableSOL,
                                 exitRes, res, minRes)
              IN  /\ autoTrading' = out.state
                  /\ op' = [NoOp EXCEPT !.name = "autoTrade", !.path = out.path,
                                        !.signal = direction, !.price = currentPrice,
                                        !.orders = out.orders]
    /\ UNCHANGED <<now, positions, tradingState, getRecentCandlesBound,
                   entriesSinceNeutral, inFlight, bt, calc, retry, websocketManager>>

NextCandleBot == Startup \/ RunAutoTrade

SpecCandleBot == Init /\ [][NextCandleBot]_vars

\* C33: a run of runAutoTrade places its profit-taking sell only when the
\* price is 5 per cent or more above the price of the last buy, and its
\* stop-loss sell only when it is 3 per cent or more below.  (Refuted by the
\* code: the thresholds it applies are 0.05 and 0.03 per cent.)
C33_ExitThresholds ==
    [][ op'.name = "autoTrade"
        => \A k \in 1..Len(op'.orders) :
             /\ op'.orders[k].kind = "profit"
                => (op'.price - autoTrading.lastTradePrice) * 100
                     >= 5 * autoTrading.lastTradePrice
             /\ op'.orders[k].kind = "stop"
                => (autoTrading.lastTradePrice - op'.price) * 100
                     >= 3 * autoTrading.lastTradePrice ]_vars

----------------------------------------------------------------------------
(* WebSocketManager: the handlers of initialize and the data streams *)

\* lines 124-152 and 154-171: setInterval unless the field holds a timer
startPriceStream(w) ==
    IF w.priceInterval THEN w
    ELSE [w EXCEPT !.priceInterval = TRUE, !.timers.price = @ + 1]

startBalanceStream(w) ==
    IF w.balanceInterval THEN w
    ELSE [w EXCEPT !.balanceInterval = TRUE, !.timers.balance = @ + 1]

\* lines 240-252
stopDataStreams(w) ==
    [w EXCEPT !.priceInterval = FALSE, !.balanceInterval = FALSE,
              !.timers.price = IF w.priceInterval THEN @ - 1 ELSE @,
              !.timers.balance = IF w.balanceInterval THEN @ - 1 ELSE @]

\* the message types of handleMessage that leave alertThreshold alone
MessageTypes ==
    {"subscribe_price", "subscribe_balance", "subscribe_movement",
     "unsubscribe_price", "unsubscribe_balance", "unknown"}

\* lines 86-122
handleMessage(w, type) ==
    IF type = "subscribe_price" THEN startPriceStream(w)
    ELSE IF type = "subscribe_balance" THEN startBalanceStream(w)
    ELSE w

WsEvent(name, c) == [NoOp EXCEPT !.name = name, !.id = c]

\* lines 21-26: 'connection'
WsConnection ==
    /\ \E c \in Sockets :
         /\ websocketManager.socket[c] = "none"
         /\ websocketManager' = [websocketManager EXCEPT !.clients = @ \cup {c},
                                                         !.socket[c] = "open"]
         /\ op' = WsEvent("connection", c)
    /\ UNCHANGED <<now, positions, tradingState, getRecentCandlesBound,
                   entriesSinceNeutral, inFlight, bt, calc, retry, autoTrading>>

\* lines 28-35: 'message' on an open socket
WsMessage ==
    /\ \E c \in Sockets, type \in MessageTypes :
         /\ websocketManager.socket[c] = "open"
         /\ websocketManager' = handleMessage(websocketManager, type)
         /\ op' = WsEvent(type, c)
    /\ UNCHANGED <<now, positions, tradingState, getRecentCandlesBound,
                   entriesSinceNeutral, inFlight, bt, calc, retry, autoTrading>>

\* lines 37-45: 'close', of an open socket or of one that has emitted 'error'
WsClose ==
    /\ \E c \in Sockets :
         /\ websocketManager.socket[c] \in {"open", "errored"}
         /\ LET left == [websocketManager EXCEPT !.clients = @ \ {c},
                                                 !.socket[c] = "none"]
            IN  websocketManager' = IF left.clients = {} THEN stopDataStreams(left)
                                    ELSE left
         /\ op' = WsEvent("close", c)
    /\ UNCHANGED <<now, positions, tradingState, getRecentCandlesBound,
                   entriesSinceNeutral, inFlight, bt, calc, retry, autoTrading>>

\* lines 47-50: 'error'
WsError ==
    /\ \E c \in Sockets :
         /\ websocketManager.socket[c] = "open"
         /\ websocketManager' = [websocketManager EXCEPT !.clients = @ \ {c},
                                                         !.socket[c] = "errored"]
         /\ op' = WsEvent("error", c)
    /\ UNCHANGED <<now, positions, tradingState, getRecentCandlesBound,
                   entriesSinceNeutral, inFlight, bt, calc, retry, autoTrading>>

NextWebSocket == WsConnection \/ WsMessage \/ WsClose \/ WsError

SpecWebSocket == Init /\ [][NextWebSocket]_vars

\* C34: there is never more than one price timer nor more than one balance
\* timer, and whenever no client is connected both are stopped.  (Refuted by
\* the code after an 'error' of the last client.)
C34_StreamLifecycle ==
    /\ websocketManager.timers.price <= 1
    /\ websocketManager.timers.balance <= 1
    /\ websocketManager.clients = {}
       => ~websocketManager.priceInterval /\ ~websocketManager.balanceInterval

\* C35: with the cycles run one after the other, consecutiveTrades is one of
\* 0, 1, 2, 3 in every state: no cycle takes it below 0 or above
\* MAX_CONSECUTIVE_TRADES.
C35_ConsecutiveTradesInRange ==
    /\ tradingState.consecutiveTrades >= 0
    /\ tradingState.consecutiveTrades <= MAX_CONSECUTIVE_TRADES

\* the counter stands at the maximum and a cycle with a directional signal has
\* just been turned away by the check of line 364
C35_Witness ==
    /\ tradingState.consecutiveTrades = MAX_CONSECUTIVE_TRADES
    /\ IsCycle(op) /\ Directional(op)
    /\ op.path = "overtrading"
    /\ op.orders = <<>>

\* the size of the open positions of a ledger, each as an order states it (in
\* 1e-6 SOL), and the size of the filled orders of the given kinds
RECURSIVE OpenSize(_, _)
OpenSize(ps, k) ==
    IF k > Len(ps) THEN 0
    ELSE (IF ps[k].status = "open" THEN toFixed6(ps[k].size) ELSE 0) + OpenSize(ps, k + 1)

RECURSIVE FilledSize(_, _, _)
FilledSize(orders, kinds, k) ==
    IF k > Len(orders) THEN 0
    ELSE (IF orders[k].kind \in kinds /\ orders[k].res = "ok" THEN orders[k].size ELSE 0)
         + FilledSize(orders, kinds, k + 1)

\* C36: over every cycle the size of the open positions of the ledger changes
\* by the size of the entry orders filled in it, new positions and scale-ins,
\* less the size of the closing orders filled in it; so from the empty ledger
\* on, the open positions account for every unit the engine holds.  (Refuted
\* by the code: a filled scale-in order is not entered in the ledger.)
C36_LedgerCoversOrders ==
    [][ IsCycle(op')
        => OpenSize(positions', 1) - OpenSize(positions, 1)
             = FilledSize(op'.orders, {"new", "scaleIn"}, 1)
               - FilledSize(op'.orders, {"close"}, 1) ]_vars

----------------------------------------------------------------------------
(* Cycles on a low balance *)

\* the available USDT of an account that is all but empty
LowBalances == {0, 1}

CycleRunsOnLowBalance ==
    /\ CycleRunsOn(LowBalances)
    /\ Len(positions') <= MaxLedger

SpecBalances == Init /\ [][CycleRunsOnLowBalance]_vars

\* C37: the value of every entry order of a cycle, its size times the price
\* of the cycle, is within the available USDT the cycle has read (sizes are in
\* 1e-6 SOL, and both sides are taken in 1e-7 USDT); with none available there
\* is no entry order.  (Refuted by the code: the size has a floor of
\* MIN_ORDER_VALUE_USDT / currentPrice whatever the balance.)
C37_EntryWithinBalance ==
    [][ IsCycle(op')
        => \A k \in EntryOrders(op'.orders) :
             op'.orders[k].size * op'.price * 10 <= op'.balance * 10000000 ]_vars

----------------------------------------------------------------------------
(* placeOrder: the order request under retryRequest *)

\* lines 179-184: without credentials placeOrder returns null and nothing is
\* sent; with them it hands its request function to retryRequest, maxRetries
\* left to its default
PlaceOrderCalled ==
    /\ retry.status \in {"none", "returned", "threw"}
    /\ \E hasApiCredentials \in BOOLEAN :
         retry' = IF hasApiCredentials
                  THEN [NoRetry EXCEPT !.status = "attempting",
                                       !.maxRetries = RATE_LIMIT_maxRetries,
                                       !.attempt = 1]
                  ELSE [NoRetry EXCEPT !.status = "returned"]
    /\ UNCHANGED <<now, positions, tradingState, getRecentCandlesBound,
                   entriesSinceNeutral, op, inFlight, bt, calc, autoTrading, websocketManager>>

\* lines 185-216, one run of the request function: the body holds instId,
\* tdMode, side, ordType, tgtCcy and sz and nothing that tells one submission
\* of the order from another, so the exchange takes every POST that reaches it
\* for a new order.  A response with an error status is the exchange turning
\* the request down; when the attempt ends without a response (the 15 s
\* timeout of line 212, a connection that breaks) the POST has or has not
\* reached the exchange; a response that is read carries the exchange's
\* answer, an order taken (code 0) or not
OrderTaken(outcome) ==
    CASE outcome = "ok" -> BOOLEAN
      [] outcome = "noResponse" -> BOOLEAN
      [] OTHER -> {FALSE}

PlaceOrderAttempt ==
    /\ retry.status = "attempting"
    /\ \E waited \in BOOLEAN, outcome \in RequestOutcomes :
         \E taken \in OrderTaken(outcome) :
           retry' = [Attempted(retry, waited, outcome) EXCEPT
                       !.accepted = IF taken THEN @ + 1 ELSE @]
    /\ UNCHANGED <<now, positions, tradingState, getRecentCandlesBound,
                   entriesSinceNeutral, op, inFlight, bt, calc, autoTrading, websocketManager>>

NextPlaceOrder == PlaceOrderCalled \/ PlaceOrderAttempt \/ RetryWaited

SpecPlaceOrder == Init /\ [][NextPlaceOrder]_vars

\* C38: one call of placeOrder results in at most one order accepted by the
\* exchange, also when an attempt fails on the client side after the exchange
\* has accepted the order.  (Refuted by the code: the attempt that timed out
\* is repeated with the same body, and the exchange accepts it again.)
C38_AtMostOneOrderAccepted == retry.accepted <= 1

----------------------------------------------------------------------------
(* The accounting of runBacktest *)

\* the sum of pnl over a trade list, from its k-th trade on
RECURSIVE SumPnl(_, _)
SumPnl(trades, k) ==
    IF k > Len(trades) THEN 0 ELSE trades[k].pnl + SumPnl(trades, k + 1)

====
